---- MODULE Spec2Model ----
(***************************************************************************)
(* ProofMap scan endpoint (POST /api/scan): the skill matcher, the         *)
(* repository scanner, the evidence rule engine and the aggregator of      *)
(* src/unnamed/part_003 (the route handler, lines 497-1152).               *)
(*                                                                         *)
(* Strings are TLA+ strings (sequences of characters); Len, SubSeq, Head,  *)
(* Tail and \o act on them character by character.                         *)
(***************************************************************************)
EXTENDS Integers, Sequences, FiniteSets, TLC

VARIABLES
    req,            \* the request body {githubUsername, resumeText}
    world,          \* the provider's answers for the listed repositories
    pc,             \* position of the POST handler
    claimedSkills,  \* const claimedSkills
    repos,          \* const repos (non-fork repositories, list order)
    langResults,    \* per repository: the listLanguages promise
    task,           \* per repository: the processRepo promise and its locals
    finished,       \* indices of the repositories in the order their scans settled
    repoFacts,      \* const repoFacts (result of Promise.all)
    response,       \* the NextResponse sent, NoResponse before
    calls,          \* provider calls issued so far
    rateLimit,      \* const rateLimit (result of checkRateLimit), NoRateLimit before
    reposRes,       \* what listForUser answered or threw, NoListing before
    arg,            \* input of the function under test (function specifications)
    ret             \* its result

vars == <<req, world, pc, claimedSkills, repos, langResults, task, finished,
          repoFacts, response, calls, rateLimit, reposRes, arg, ret>>

(***************************************************************************)
(* String helpers (String.prototype methods used by the route).            *)
(***************************************************************************)
UPPER == "ABCDEFGHIJKLMNOPQRSTUVWXYZ"
LOWER == "abcdefghijklmnopqrstuvwxyz"

CharAt(s, i) == SubSeq(s, i, i)

UpperChars == {CharAt(UPPER, i) : i \in 1..Len(UPPER)}

lowerOf == [c \in UpperChars |->
              CharAt(LOWER, CHOOSE i \in 1..Len(UPPER) : CharAt(UPPER, i) = c)]

LowerChar(c) == IF c \in UpperChars THEN lowerOf[c] ELSE c

RECURSIVE toLowerCase(_)
toLowerCase(s) ==
    IF s = "" THEN "" ELSE LowerChar(Head(s)) \o toLowerCase(Tail(s))

\* t.includes(p)
includes(t, p) ==
    \E i \in 0..(Len(t) - Len(p)) : SubSeq(t, i + 1, i + Len(p)) = p

startsWith(t, p) == Len(p) <= Len(t) /\ SubSeq(t, 1, Len(p)) = p

endsWith(t, p) == Len(p) <= Len(t) /\ SubSeq(t, Len(t) - Len(p) + 1, Len(t)) = p

\* p.lastIndexOf("."), 0-based, -1 when absent
lastIndexOfDot(p) ==
    IF \E i \in 1..Len(p) : CharAt(p, i) = "."
    THEN (CHOOSE i \in 1..Len(p) :
            /\ CharAt(p, i) = "."
            /\ \A j \in (i + 1)..Len(p) : CharAt(p, j) # ".") - 1
    ELSE -1

Range(f) == {f[i] : i \in DOMAIN f}

RECURSIVE SeqSum(_)
SeqSum(s) == IF s = <<>> THEN 0 ELSE Head(s) + SeqSum(Tail(s))

(***************************************************************************)
(* Skill catalog and matcher.                                              *)
(***************************************************************************)
SKILLS ==
    << "Java", "Python", "JavaScript", "TypeScript", "C++",
       "React", "Next.js", "React Native",
       "HTML", "CSS", "Tailwind",
       "Node.js", "Express", "Spring Boot", "FastAPI",
       "REST API", "Microservices",
       "AWS", "Docker", "Jenkins", "CI/CD", "GitHub Actions",
       "PostgreSQL", "MySQL", "MongoDB",
       "Testing", "Concurrency" >>

SkillSet == Range(SKILLS)

\* normalize without the lower-casing
normalizeNoLower(text) == text

normalize(text) == toLowerCase(text)

\* the synonyms table of extractClaimedSkills; synonyms[s] || []
synonyms(s) ==
    CASE s = "Next.js" -> <<"nextjs", "next.js", "next js">>
      [] s = "Node.js" -> <<"nodejs", "node.js", "node js">>
      [] s = "REST API" -> <<"restful", "rest api", "restful api", "rest apis">>
      [] s = "CI/CD" -> <<"cicd", "ci/cd", "pipeline", "pipelines">>
      [] s = "GitHub Actions" -> <<"github actions", ".github/workflows">>
      [] s = "Spring Boot" -> <<"spring boot", "springboot">>
      [] s = "React" -> <<"reactjs", "react js">>
      [] s = "TypeScript" -> <<"typescript">>
      [] s = "JavaScript" -> <<"javascript">>
      [] s = "Tailwind" -> <<"tailwindcss", "tailwind css">>
      [] s = "Docker" -> <<"dockerfile", "docker compose", "docker-compose">>
      [] s = "PostgreSQL" -> <<"postgres", "psql">>
      [] s = "MongoDB" -> <<"mongo", "mongodb">>
      [] s = "React Native" -> <<"react-native", "react native">>
      [] OTHER -> <<>>

\* const patterns = [s, ...(synonyms[s] || [])].map(normalize)
patterns(s) ==
    LET raw == <<s>> \o synonyms(s)
    IN  [i \in 1..Len(raw) |-> normalize(raw[i])]

\* Array.from(new Set(found)): first occurrences, in order
RECURSIVE dedupe(_)
dedupe(s) ==
    IF s = <<>> THEN <<>>
    ELSE LET init == dedupe(SubSeq(s, 1, Len(s) - 1))
             last == s[Len(s)]
         IN  IF last \in Range(init) THEN init ELSE Append(init, last)

extractClaimedSkills(text) ==
    LET t == normalize(text)
        hit(s) == LET ps == patterns(s)
                  IN  \E k \in 1..Len(ps) : ps[k] # "" /\ includes(t, ps[k])
        found == SelectSeq(SKILLS, hit)
    IN  dedupe(found)

(***************************************************************************)
(* Scoring primitives.                                                     *)
(***************************************************************************)
Max(a, b) == IF a >= b THEN a ELSE b
Min(a, b) == IF a <= b THEN a ELSE b

\* Math.round(p / q) for q > 0: the nearest integer, halves upwards.  The
\* quotient is taken exactly; the route computes it in double precision.
RoundDiv(p, q) == (2 * p + q) \div (2 * q)

\* clamp(p / q) = Math.max(0, Math.min(100, Math.round(p / q)))
clamp(p, q) == Max(0, Min(100, RoundDiv(p, q)))

\* statusFromScore with the first threshold taken inclusively
statusFromScoreOff(score) ==
    IF score <= 25 THEN [status |-> "Needs attention", color |-> "red"]
    ELSE IF score < 60 THEN [status |-> "Medium", color |-> "yellow"]
    ELSE [status |-> "Good", color |-> "green"]

statusFromScore(score) ==
    IF score < 25 THEN [status |-> "Needs attention", color |-> "red"]
    ELSE IF score < 60 THEN [status |-> "Medium", color |-> "yellow"]
    ELSE [status |-> "Good", color |-> "green"]

\* matchScore asking for three signals before it answers 100
matchScoreThree(strongSignalsAcrossRepos) ==
    IF strongSignalsAcrossRepos <= 0 THEN 0
    ELSE IF strongSignalsAcrossRepos <= 2 THEN 50
    ELSE 100

matchScore(strongSignalsAcrossRepos) ==
    IF strongSignalsAcrossRepos <= 0 THEN 0
    ELSE IF strongSignalsAcrossRepos = 1 THEN 50
    ELSE 100

\* calculateProficiency with neither the boost nor the final score capped
calculateProficiencyNoCap(reposWithProof, reposWithAdvanced, totalCodeFiles) ==
    IF reposWithProof = 0 THEN [level |-> "None", score |-> 0]
    ELSE LET baseScore == matchScore(reposWithProof)
             finalScore == baseScore + reposWithAdvanced * 10
         IN  IF reposWithAdvanced >= 2 /\ finalScore >= 80
             THEN [level |-> "Expert", score |-> finalScore]
             ELSE IF reposWithAdvanced >= 1
                     \/ (reposWithProof >= 2 /\ totalCodeFiles >= 20)
             THEN [level |-> "Intermediate", score |-> Max(finalScore, 60)]
             ELSE [level |-> "Beginner", score |-> Min(finalScore, 65)]

\* calculateProficiency asking for exactly two advanced repositories
calculateProficiencyExpertFirst(reposWithProof, reposWithAdvanced, totalCodeFiles) ==
    IF reposWithProof = 0 THEN [level |-> "None", score |-> 0]
    ELSE LET baseScore == matchScore(reposWithProof)
             proficiencyBoost ==
                 IF reposWithAdvanced > 0 THEN Min(20, reposWithAdvanced * 10) ELSE 0
             finalScore == Min(100, baseScore + proficiencyBoost)
         IN  IF reposWithAdvanced = 2 /\ finalScore >= 80
             THEN [level |-> "Expert", score |-> finalScore]
             ELSE IF reposWithAdvanced >= 1
                     \/ (reposWithProof >= 2 /\ totalCodeFiles >= 20)
             THEN [level |-> "Intermediate", score |-> Max(finalScore, 60)]
             ELSE [level |-> "Beginner", score |-> Min(finalScore, 65)]

\* calculateProficiency answering Beginner where no repository is counted
calculateProficiencyNeverNone(reposWithProof, reposWithAdvanced, totalCodeFiles) ==
    IF reposWithProof = 0 THEN [level |-> "Beginner", score |-> 0]
    ELSE LET baseScore == matchScore(reposWithProof)
             proficiencyBoost ==
                 IF reposWithAdvanced > 0 THEN Min(20, reposWithAdvanced * 10) ELSE 0
             finalScore == Min(100, baseScore + proficiencyBoost)
         IN  IF reposWithAdvanced >= 2 /\ finalScore >= 80
             THEN [level |-> "Expert", score |-> finalScore]
             ELSE IF reposWithAdvanced >= 1
                     \/ (reposWithProof >= 2 /\ totalCodeFiles >= 20)
             THEN [level |-> "Intermediate", score |-> Max(finalScore, 60)]
             ELSE [level |-> "Beginner", score |-> Min(finalScore, 65)]

calculateProficiency(reposWithProof, reposWithAdvanced, totalCodeFiles) ==
    IF reposWithProof = 0 THEN [level |-> "None", score |-> 0]
    ELSE LET baseScore == matchScore(reposWithProof)
             proficiencyBoost ==
                 IF reposWithAdvanced > 0 THEN Min(20, reposWithAdvanced * 10) ELSE 0
             finalScore == Min(100, baseScore + proficiencyBoost)
         IN  IF reposWithAdvanced >= 2 /\ finalScore >= 80
             THEN [level |-> "Expert", score |-> finalScore]
             ELSE IF reposWithAdvanced >= 1
                     \/ (reposWithProof >= 2 /\ totalCodeFiles >= 20)
             THEN [level |-> "Intermediate", score |-> Max(finalScore, 60)]
             ELSE IF reposWithProof >= 1
             THEN [level |-> "Beginner", score |-> Min(finalScore, 65)]
             ELSE [level |-> "None", score |-> 0]

(***************************************************************************)
(* The rule table.  A regular expression is kept as its presence in the    *)
(* list (importRegex, advancedPatterns: the list lengths); whether a text  *)
(* matches some expression of a skill's list is carried by the text (see   *)
(* importHit, advancedHit).  An absent field is an empty list.             *)
(***************************************************************************)
Rule(lang, fis, deps, pyDeps, nImport, nAdvanced) ==
    [linguistLang |-> lang, fileIndicators |-> fis, deps |-> deps,
     pyDeps |-> pyDeps, importRegex |-> nImport, advancedPatterns |-> nAdvanced]

\* RULES[skill] of a skill without entry: undefined, every rules?.field is undefined
NoRule == Rule("", <<>>, <<>>, <<>>, 0, 0)

RULES(skill) ==
    CASE skill = "Java" -> Rule("Java", <<".java">>, <<>>, <<>>, 4, 0)
      [] skill = "Python" -> Rule("Python", <<".py", "__init__.py">>, <<>>, <<>>, 4, 0)
      [] skill = "JavaScript" ->
            Rule("JavaScript", <<".js", ".mjs", ".cjs">>, <<>>, <<>>, 8, 0)
      [] skill = "TypeScript" ->
            Rule("TypeScript", <<".ts", ".tsx", "tsconfig.json">>, <<>>, <<>>, 6, 0)
      [] skill = "C++" ->
            Rule("C++", <<".cpp", ".hpp", ".cc", ".cxx">>, <<>>, <<>>, 4, 0)
      [] skill = "HTML" -> Rule("HTML", <<".html">>, <<>>, <<>>, 1, 0)
      [] skill = "CSS" -> Rule("CSS", <<".css", ".scss">>, <<>>, <<>>, 3, 0)
      [] skill = "React" -> Rule("", <<>>, <<"react", "react-dom">>, <<>>, 3, 4)
      [] skill = "Next.js" ->
            Rule("", <<"next.config", "app/", "pages/">>, <<"next">>, <<>>, 2, 4)
      [] skill = "React Native" -> Rule("", <<>>, <<"react-native">>, <<>>, 2, 3)
      [] skill = "Tailwind" ->
            Rule("", <<"tailwind.config", "postcss.config">>, <<"tailwindcss">>, <<>>, 2, 3)
      [] skill = "Node.js" -> Rule("", <<"package.json">>, <<>>, <<>>, 3, 4)
      [] skill = "Express" -> Rule("", <<>>, <<"express">>, <<>>, 4, 4)
      [] skill = "FastAPI" -> Rule("", <<>>, <<>>, <<"fastapi">>, 3, 4)
      [] skill = "Spring Boot" ->
            Rule("", <<"pom.xml", "build.gradle", "gradle">>, <<>>, <<>>, 3, 5)
      [] skill = "Docker" ->
            Rule("", <<"dockerfile", "docker-compose", "compose.yml">>, <<>>, <<>>, 1, 0)
      [] skill = "GitHub Actions" -> Rule("", <<".github/workflows">>, <<>>, <<>>, 2, 0)
      [] skill = "CI/CD" ->
            Rule("", <<".github/workflows", "jenkinsfile", ".gitlab-ci", "azure-pipelines">>,
                 <<>>, <<>>, 2, 0)
      [] skill = "Jenkins" -> Rule("", <<"jenkinsfile">>, <<>>, <<>>, 1, 0)
      [] skill = "AWS" ->
            Rule("", <<"serverless.yml", ".tf", "cloudformation", "template.yaml">>,
                 <<"aws-sdk", "@aws-sdk/client-s3", "@aws-sdk/client-dynamodb",
                   "@aws-sdk/client-lambda">>, <<>>, 3, 0)
      [] skill = "PostgreSQL" ->
            Rule("", <<>>, <<"pg", "postgres", "knex", "typeorm">>, <<>>, 4, 5)
      [] skill = "MySQL" -> Rule("", <<>>, <<"mysql", "mysql2", "sequelize">>, <<>>, 2, 3)
      [] skill = "MongoDB" -> Rule("", <<>>, <<"mongodb", "mongoose">>, <<>>, 3, 4)
      [] skill = "Testing" ->
            Rule("", <<"__tests__", ".spec.", ".test.">>,
                 <<"jest", "vitest", "mocha", "chai", "cypress", "playwright",
                   "@testing-library/react">>, <<>>, 5, 5)
      [] skill = "REST API" -> Rule("", <<>>, <<"axios", "node-fetch">>, <<>>, 4, 4)
      [] skill = "Concurrency" -> Rule("", <<>>, <<>>, <<>>, 3, 0)
      [] skill = "Microservices" ->
            Rule("", <<"docker-compose", "k8s", "helm", "services/">>, <<>>, <<>>, 3, 0)
      [] OTHER -> NoRule

pureLinguistSkills == {"C++"}

hybridLanguages == {"Java", "Python", "JavaScript", "TypeScript", "HTML", "CSS"}

(***************************************************************************)
(* Provider answers and their decoding (GitHub helpers).                   *)
(*   getContent answer : [kind: "fail"] | [kind: "dir"]                    *)
(*                     | [kind: "file", encoding, content]                 *)
(*   getTree answer    : a sequence of [path, type, sha], or failure       *)
(*   getBlob answer    : [kind: "fail"] | [kind: "blob", encoding, content]*)
(* A blob's content is a text [len, imp, adv, impHead, advHead]: its       *)
(* length in characters, the skills one of whose importRegex (imp) or      *)
(* advancedPatterns (adv) matches the whole text, and those that match its *)
(* first MAX_BLOB_CHARS characters (impHead, advHead).                     *)
(***************************************************************************)
MAX_FILES_PER_REPO == 200
MAX_CODE_FILES_FETCH == 35
MAX_BLOB_CHARS == 25000
MAX_PARALLEL_BLOBS == 10

NullText == [kind |-> "null"]

Text(len, imp, adv, impHead, advHead) ==
    [len |-> len, imp |-> imp, adv |-> adv, impHead |-> impHead, advHead |-> advHead]

EmptyText == Text(0, {}, {}, {}, {})

\* tryGetFileText: the decoded file, or null
tryGetFileText(answer) ==
    IF answer.kind # "file" THEN NullText
    ELSE IF answer.content.kind = "empty" \/ answer.encoding # "base64" THEN NullText
    ELSE answer.content

\* fetchBlobText after .catch(() => ""): the decoded blob, "" when it has no
\* base64 content or the call failed
fetchBlobText(answer) ==
    IF answer.kind = "fail" THEN EmptyText
    ELSE IF answer.content.len = 0 \/ answer.encoding # "base64" THEN EmptyText
    ELSE answer.content

\* parsePackageJsonDeps: the keys of the three dependency objects, lower-cased;
\* the empty set when JSON.parse (or reading the object) throws
parsePackageJsonDeps(pkgText) ==
    IF pkgText.kind # "json" THEN {}
    ELSE {toLowerCase(x) : x \in pkgText.dependencies \cup pkgText.devDependencies
                                    \cup pkgText.peerDependencies}

isSpace(c) == c \in {" ", "\t", "\r"}

RECURSIVE trimStart(_)
trimStart(s) == IF s # "" /\ isSpace(Head(s)) THEN trimStart(Tail(s)) ELSE s

RECURSIVE trimEnd(_)
trimEnd(s) ==
    IF s # "" /\ isSpace(CharAt(s, Len(s))) THEN trimEnd(SubSeq(s, 1, Len(s) - 1)) ELSE s

trim(s) == trimEnd(trimStart(s))

\* s.split(/[<>=\s;]/)[0]
firstField(s) ==
    LET stops == {i \in 1..Len(s) : CharAt(s, i) \in {"<", ">", "=", ";"} \/ isSpace(CharAt(s, i))}
    IN  IF stops = {} THEN s
        ELSE SubSeq(s, 1, (CHOOSE i \in stops : \A j \in stops : i <= j) - 1)

\* parseRequirements over the lines of the text (text.split("\n"))
parseRequirements(reqText) ==
    LET lines == reqText.lines
        pkgOf(line) == trim(firstField(trim(line)))
        kept == {k \in 1..Len(lines) :
                    /\ trim(lines[k]) # ""
                    /\ ~startsWith(trim(lines[k]), "#")
                    /\ pkgOf(lines[k]) # ""}
    IN  {toLowerCase(pkgOf(lines[k])) : k \in kept}

(***************************************************************************)
(* Tree filtering and file selection (processRepo).                        *)
(***************************************************************************)
SKIP_DIRS == <<"node_modules", ".next", "dist", "build", "out", ".git", "coverage", "docs">>

SCAN_EXTS ==
    {".js", ".jsx", ".ts", ".tsx", ".py", ".java", ".kt", ".yml", ".yaml", ".json",
     ".html", ".css", ".scss", ".sh", ".gradle", ".properties", ".xml"}

codeExts ==
    {".js", ".jsx", ".ts", ".tsx", ".py", ".java", ".kt", ".yml", ".yaml",
     ".html", ".css", ".scss", ".xml", ".gradle"}

priorityFiles ==
    <<"package.json", "tsconfig.json", "main", "index", "app", "server", "config",
      "__init__", "settings", "routes", "api", "controller", "service">>

getExt(path) ==
    LET i == lastIndexOfDot(path)
    IN  IF i = -1 THEN "" ELSE toLowerCase(SubSeq(path, i + 1, Len(path)))

slice(s, n) == SubSeq(s, 1, Min(n, Len(s)))

\* the filter without its lock-file test
keepPathWithLocks(path) ==
    LET p == toLowerCase(path)
    IN  /\ ~\E k \in 1..Len(SKIP_DIRS) :
              \/ includes(p, "/" \o SKIP_DIRS[k] \o "/")
              \/ startsWith(p, SKIP_DIRS[k] \o "/")
        /\ ~(endsWith(p, ".md") \/ endsWith(p, ".rst") \/ endsWith(p, ".txt"))
        /\ ~(includes(p, ".min.") \/ includes(p, ".bundle.") \/ endsWith(p, ".map"))

\* lines 951-962: the entries the filter keeps, tested on the lower-cased path
keepPath(path) ==
    LET p == toLowerCase(path)
    IN  /\ ~\E k \in 1..Len(SKIP_DIRS) :
              \/ includes(p, "/" \o SKIP_DIRS[k] \o "/")
              \/ startsWith(p, SKIP_DIRS[k] \o "/")
        /\ ~(endsWith(p, ".md") \/ endsWith(p, ".rst") \/ endsWith(p, ".txt"))
        /\ ~(includes(p, ".min.") \/ includes(p, ".bundle.") \/ endsWith(p, ".map"))
        /\ ~(includes(p, "package-lock") \/ includes(p, "yarn.lock")
              \/ includes(p, "pnpm-lock"))

\* const blobs = tree.filter(...).map(...).filter(...).filter(...).slice(...)
blobsOf(tree) ==
    LET isBlob(x) == x.type = "blob" /\ x.path # "" /\ x.sha # ""
        kept(x) == keepPath(x.path)
        scanned(x) == getExt(x.path) \in SCAN_EXTS
        found == SelectSeq(tree, isBlob)
        named == [i \in 1..Len(found) |-> [path |-> found[i].path, sha |-> found[i].sha]]
    IN  slice(SelectSeq(SelectSeq(named, kept), scanned), MAX_FILES_PER_REPO)

filesLowerOf(blobs) == [i \in 1..Len(blobs) |-> toLowerCase(blobs[i].path)]

isPriority(b) ==
    \E k \in 1..Len(priorityFiles) : includes(toLowerCase(b.path), priorityFiles[k])

\* the selection without the sort
codeBlobsInTreeOrder(blobs) ==
    LET isCode(b) == getExt(b.path) \in codeExts
    IN  slice(SelectSeq(blobs, isCode), MAX_CODE_FILES_FETCH)

\* blobs.filter(code extension).sort(priority first, stable).slice(...)
codeBlobsOf(blobs) ==
    LET isCode(b) == getExt(b.path) \in codeExts
        notPriority(b) == ~isPriority(b)
        code == SelectSeq(blobs, isCode)
    IN  slice(SelectSeq(code, isPriority) \o SelectSeq(code, notPriority),
              MAX_CODE_FILES_FETCH)

\* the sample kept of a fetched text: its first MAX_BLOB_CHARS characters
truncate(txt) ==
    IF txt.len > MAX_BLOB_CHARS
    THEN Text(MAX_BLOB_CHARS, txt.impHead, txt.advHead, txt.impHead, txt.advHead)
    ELSE txt

\* for (const txt of batchResults) if (txt) codeSamples.push(truncate(txt))
pushSamples(codeSamples, batchResults) ==
    LET nonEmpty(txt) == txt.len > 0
        got == SelectSeq(batchResults, nonEmpty)
    IN  codeSamples \o [i \in 1..Len(got) |-> truncate(got[i])]

Facts(name, deps, pyDeps, filesLower, codeSamples, totalCodeFiles) ==
    [repo |-> name, deps |-> deps, pyDeps |-> pyDeps, filesLower |-> filesLower,
     codeSamples |-> codeSamples, totalCodeFiles |-> totalCodeFiles]

(***************************************************************************)
(* Language totals.  A listLanguages result is a function from language    *)
(* names to byte counts ({} after .catch).                                 *)
(***************************************************************************)
NoLanguages == [l \in {} |-> 0]

bytesOf(langData, lang) == IF lang \in DOMAIN langData THEN langData[lang] ELSE 0

\* langTotals[lang] || 0, summed over the results in list order
langTotal(results, lang) ==
    SeqSum([i \in 1..Len(results) |-> bytesOf(results[i], lang)])

langsOf(results) == UNION {DOMAIN results[i] : i \in 1..Len(results)}

RECURSIVE sumTotals(_, _)
sumTotals(results, langs) ==
    IF langs = {} THEN 0
    ELSE LET l == CHOOSE x \in langs : TRUE
         IN  langTotal(results, l) + sumTotals(results, langs \ {l})

\* Object.values(langTotals).reduce(...) || 1
totalBytes(results) ==
    LET sum == sumTotals(results, langsOf(results))
    IN  IF sum = 0 THEN 1 ELSE sum

\* the share with the fraction cut off
langPercentTruncated(results, lang) ==
    Max(0, Min(100, (langTotal(results, lang) * 100) \div totalBytes(results)))

\* line 916: langPercent
langPercent(results, lang) ==
    clamp(langTotal(results, lang) * 100, totalBytes(results))

(***************************************************************************)
(* Evidence rule engine (the breakdown).                                   *)
(***************************************************************************)
fileIndicatorHit(rules, r) ==
    /\ Len(rules.fileIndicators) > 0
    /\ \E f \in 1..Len(rules.fileIndicators) :
          LET fi == toLowerCase(rules.fileIndicators[f])
          IN  \E k \in 1..Len(r.filesLower) : includes(r.filesLower[k], fi)

depsHit(rules, r) ==
    /\ Len(rules.deps) > 0
    /\ \E d \in 1..Len(rules.deps) : toLowerCase(rules.deps[d]) \in r.deps

pyDepsHit(rules, r) ==
    /\ Len(rules.pyDeps) > 0
    /\ \E d \in 1..Len(rules.pyDeps) : toLowerCase(rules.pyDeps[d]) \in r.pyDeps

\* r.codeSamples.some((txt) => rules.importRegex.some((re) => re.test(txt)))
importHit(skill, rules, r) ==
    /\ rules.importRegex > 0
    /\ \E k \in 1..Len(r.codeSamples) : skill \in r.codeSamples[k].imp

advancedHit(skill, rules, r) ==
    /\ rules.advancedPatterns > 0
    /\ \E k \in 1..Len(r.codeSamples) : skill \in r.codeSamples[k].adv

Counts(n, a, t) == [n |-> n, a |-> a, t |-> t]

\* one pass of the hybrid-language loop body
hybridStep(skill, rules, r, c) ==
    LET byFile == fileIndicatorHit(rules, r)
        byCode == ~byFile /\ importHit(skill, rules, r)
        hasPattern == byFile \/ byCode
        hasAdvancedPattern == hasPattern /\ advancedHit(skill, rules, r)
    IN  Counts(c.n + (IF hasPattern THEN 1 ELSE 0),
               c.a + (IF hasPattern /\ hasAdvancedPattern THEN 1 ELSE 0),
               c.t + (IF hasPattern THEN r.totalCodeFiles ELSE 0))

RECURSIVE hybridLoop(_, _, _, _, _)
hybridLoop(skill, rules, facts, i, c) ==
    IF i > Len(facts) THEN c
    ELSE hybridLoop(skill, rules, facts, i + 1, hybridStep(skill, rules, facts[i], c))

\* repoSignal of the evidence-signal loop body
repoSignal(skill, rules, r) ==
    (IF fileIndicatorHit(rules, r) THEN 1 ELSE 0)
    + (IF depsHit(rules, r) THEN 1 ELSE 0)
    + (IF pyDepsHit(rules, r) THEN 1 ELSE 0)
    + (IF importHit(skill, rules, r) THEN 1 ELSE 0)

\* the loop body counting a repository as proof when repoSignal >= 0
signalStepNonNegative(skill, rules, r, c) ==
    LET sig == repoSignal(skill, rules, r)
        hasAdvancedPattern == sig > 0 /\ advancedHit(skill, rules, r)
    IN  Counts(c.n + (IF sig >= 0 THEN 1 ELSE 0),
               c.a + (IF sig > 0 /\ hasAdvancedPattern THEN 1 ELSE 0),
               c.t + (IF fileIndicatorHit(rules, r) THEN r.totalCodeFiles ELSE 0))

\* the loop body adding the number of signal kinds to reposWithProof
signalStepSummed(skill, rules, r, c) ==
    LET sig == repoSignal(skill, rules, r)
        hasAdvancedPattern == sig > 0 /\ advancedHit(skill, rules, r)
    IN  Counts(c.n + sig,
               c.a + (IF sig > 0 /\ hasAdvancedPattern THEN 1 ELSE 0),
               c.t + (IF fileIndicatorHit(rules, r) THEN r.totalCodeFiles ELSE 0))

\* one pass of the evidence-signal loop body
signalStep(skill, rules, r, c) ==
    LET sig == repoSignal(skill, rules, r)
        hasAdvancedPattern == sig > 0 /\ advancedHit(skill, rules, r)
    IN  Counts(c.n + (IF sig > 0 THEN 1 ELSE 0),
               c.a + (IF sig > 0 /\ hasAdvancedPattern THEN 1 ELSE 0),
               c.t + (IF fileIndicatorHit(rules, r) THEN r.totalCodeFiles ELSE 0))

\* the evidence-signal loop, with its early termination
RECURSIVE signalLoop(_, _, _, _, _)
signalLoop(skill, rules, facts, i, c) ==
    IF i > Len(facts) THEN c
    ELSE LET d == signalStep(skill, rules, facts[i], c)
         IN  IF d.n >= 3 THEN d ELSE signalLoop(skill, rules, facts, i + 1, d)

\* one entry of claimedSkills.map((skill) => ...)
breakdownEntry(skill, facts, results) ==
    LET rules == RULES(skill)
    IN  IF rules.linguistLang # "" /\ skill \in pureLinguistSkills
        THEN LET score == langPercent(results, rules.linguistLang)
             IN  [skill |-> skill, score |-> score,
                  status |-> statusFromScore(score).status,
                  color |-> statusFromScore(score).color]
        ELSE IF rules.linguistLang # "" /\ skill \in hybridLanguages
        THEN LET linguistScore == langPercent(results, rules.linguistLang)
                 c == hybridLoop(skill, rules, facts, 1, Counts(0, 0, 0))
                 proficiency == calculateProficiency(c.n, c.a, c.t)
                 score == RoundDiv(linguistScore + proficiency.score, 2)
             IN  [skill |-> skill, score |-> score,
                  status |-> statusFromScore(score).status,
                  color |-> statusFromScore(score).color,
                  proficiency |-> proficiency.level]
        ELSE LET c == signalLoop(skill, rules, facts, 1, Counts(0, 0, 0))
                 proficiency == calculateProficiency(c.n, c.a, c.t)
             IN  [skill |-> skill, score |-> proficiency.score,
                  status |-> statusFromScore(proficiency.score).status,
                  color |-> statusFromScore(proficiency.score).color,
                  proficiency |-> proficiency.level]

breakdownOf(claimed, facts, results) ==
    [i \in 1..Len(claimed) |-> breakdownEntry(claimed[i], facts, results)]

(***************************************************************************)
(* Aggregator and the responses.                                           *)
(***************************************************************************)
scoresOf(breakdown) == [i \in 1..Len(breakdown) |-> breakdown[i].score]

\* the mean truncated instead of rounded
overallScoreTrunc(breakdown) ==
    IF Len(breakdown) = 0 THEN 0
    ELSE SeqSum(scoresOf(breakdown)) \div Len(breakdown)

overallScoreOf(breakdown) ==
    IF Len(breakdown) = 0 THEN 0
    ELSE RoundDiv(SeqSum(scoresOf(breakdown)), Len(breakdown))

skillsOf(breakdown) == [i \in 1..Len(breakdown) |-> breakdown[i].skill]

provenSkillsOf(breakdown) ==
    LET proven(b) == b.score >= 25 IN skillsOf(SelectSeq(breakdown, proven))

missingProofOf(breakdown) ==
    LET missing(b) == b.score < 25 IN skillsOf(SelectSeq(breakdown, missing))

\* the body of the 200 response (meta, which carries only timings, is left out)
ScanResult(username, nRepos, claimed, facts, results) ==
    LET breakdown == breakdownOf(claimed, facts, results)
    IN  [kind |-> "ScanResult",
         status |-> 200,
         githubUsername |-> username,
         reposAnalyzed |-> nRepos,
         overallScore |-> overallScoreOf(breakdown),
         claimedSkills |-> claimed,
         provenSkills |-> provenSkillsOf(breakdown),
         missingProof |-> missingProofOf(breakdown),
         breakdown |-> breakdown]

\* NextResponse.json({ error }) without its { status } option answers 200
ErrorResponseNoStatus(status, message) ==
    [kind |-> "error", status |-> 200, error |-> message]

ErrorResponse(status, message) ==
    [kind |-> "error", status |-> status, error |-> message]

NoResponse == [kind |-> "none"]

(***************************************************************************)
(* processRepo as a function of the provider's answers for one repository  *)
(* (what one scan computes when nothing else runs).                        *)
(*   repository answers: [name, fork, default_branch, languages, pkg,      *)
(*   reqTxt, trees, blobs]; trees maps a ref to its tree (getTree fails    *)
(*   for any other ref), blobs maps a sha to the getBlob answer.           *)
(***************************************************************************)
Fail == [kind |-> "fail"]

\* repos.map((r) => ({name, default_branch: r.default_branch || "main"}))
branchOf(r) == IF r.default_branch = "" THEN "main" ELSE r.default_branch

depsOf(r) == parsePackageJsonDeps(tryGetFileText(r.pkg))

pyDepsOf(r) ==
    LET reqTxt == tryGetFileText(r.reqTxt)
    IN  IF reqTxt.kind = "lines" THEN parseRequirements(reqTxt) ELSE {}

treeFails(r, ref) == ref \notin DOMAIN r.trees

getBlob(r, sha) == IF sha \in DOMAIN r.blobs THEN r.blobs[sha] ELSE Fail

\* the facts returned when no tree can be fetched, the dependencies dropped
factsWithoutTreeBare(name, deps, pyDeps) == Facts(name, {}, {}, <<>>, <<>>, 0)

\* line 944: the facts returned when no tree can be fetched
factsWithoutTree(name, deps, pyDeps) == Facts(name, deps, pyDeps, <<>>, <<>>, 0)

processRepo(r) ==
    IF treeFails(r, branchOf(r)) /\ treeFails(r, "master")
    THEN factsWithoutTree(r.name, depsOf(r), pyDepsOf(r))
    ELSE LET tree == IF treeFails(r, branchOf(r)) THEN r.trees["master"]
                     ELSE r.trees[branchOf(r)]
             blobs == blobsOf(tree)
             codeBlobs == codeBlobsOf(blobs)
             texts == [i \in 1..Len(codeBlobs) |->
                         fetchBlobText(getBlob(r, codeBlobs[i].sha))]
         IN  Facts(r.name, depsOf(r), pyDepsOf(r), filesLowerOf(blobs),
                   pushSamples(<<>>, texts), Len(codeBlobs))

\* the listing kept whole
keepAllRepos(listing) == listing

\* reposRes.data.filter((r) => !r.fork)

nonForks(listing) == LET notFork(r) == ~r.fork IN SelectSeq(listing, notFork)

languagesOf(r) == IF r.languages.kind = "fail" THEN NoLanguages ELSE r.languages.data

(***************************************************************************)
(* The inputs explored: requests and repository answers.                   *)
(***************************************************************************)
MaxRepos == 2

File(content) == [kind |-> "file", encoding |-> "base64", content |-> content]

Json(dependencies, devDependencies, peerDependencies) ==
    [kind |-> "json", dependencies |-> dependencies,
     devDependencies |-> devDependencies, peerDependencies |-> peerDependencies]

Lines(lines) == [kind |-> "lines", lines |-> lines]

Entry(path, type, sha) == [path |-> path, type |-> type, sha |-> sha]

Blob(text) == [kind |-> "blob", encoding |-> "base64", content |-> text]

Languages(data) == [kind |-> "ok", data |-> data]

\* package.json lists express; the tree holds a root Dockerfile
RepoApi ==
    [name |-> "api", fork |-> FALSE, default_branch |-> "main",
     languages |-> Languages([l \in {"JavaScript", "Dockerfile"} |->
                                 IF l = "JavaScript" THEN 900 ELSE 100]),
     pkg |-> File(Json({"express"}, {}, {})),
     reqTxt |-> Fail,
     trees |-> [ref \in {"main"} |->
                  <<Entry("Dockerfile", "blob", "d1"),
                    Entry("package.json", "blob", "p1")>>],
     blobs |-> [sha \in {"d1", "p1"} |-> Blob(Text(120, {"Docker"}, {}, {"Docker"}, {}))]]

\* no default branch reported, tree only on master, two code files of which
\* one cannot be fetched
RepoWeb ==
    [name |-> "web", fork |-> FALSE, default_branch |-> "",
     languages |-> Languages([l \in {"JavaScript", "HTML", "C++"} |->
                                 IF l = "JavaScript" THEN 300
                                 ELSE IF l = "HTML" THEN 100 ELSE 50]),
     pkg |-> File(Json({"Express", "react"}, {"jest"}, {})),
     reqTxt |-> File(Lines(<<"# api", "", " FastAPI>=0.100 ", "uvicorn">>)),
     trees |-> [ref \in {"master"} |->
                  <<Entry("src", "tree", "t1"),
                    Entry("src/util.ts", "blob", "s2"),
                    Entry("src/Index.JS", "blob", "s1"),
                    Entry("README.md", "blob", "m1"),
                    Entry("node_modules/x/index.js", "blob", "n1"),
                    Entry("public/home.html", "blob", "h1")>>],
     blobs |-> [sha \in {"s1", "h1"} |->
                  IF sha = "s1"
                  THEN Blob(Text(30000, {"Express", "JavaScript", "React"}, {"Express", "React"},
                                 {"Express", "JavaScript"}, {"Express"}))
                  ELSE Blob(Text(400, {"HTML"}, {}, {"HTML"}, {}))]]

RepoFork ==
    [name |-> "forked", fork |-> TRUE, default_branch |-> "main",
     languages |-> Languages([l \in {"Java"} |-> 5000]),
     pkg |-> File(Json({"react"}, {}, {})),
     reqTxt |-> Fail,
     trees |-> [ref \in {"main"} |-> <<Entry("Main.java", "blob", "j1")>>],
     blobs |-> [sha \in {"j1"} |-> Blob(Text(50, {"Java"}, {}, {"Java"}, {}))]]

\* neither tree can be fetched, the language call fails, package.json is
\* not valid JSON
RepoBroken ==
    [name |-> "broken", fork |-> FALSE, default_branch |-> "dev",
     languages |-> Fail,
     pkg |-> File([kind |-> "invalid"]),
     reqTxt |-> File(Lines(<<"fastapi==0.1">>)),
     trees |-> [ref \in {} |-> <<>>],
     blobs |-> [sha \in {} |-> Fail]]

RepoLib == {RepoApi, RepoWeb, RepoFork, RepoBroken}

Digits == "0123456789"

\* the listing: repository names are unique
Listing(rs) == [i \in 1..Len(rs) |-> [rs[i] EXCEPT !.name = @ \o "-" \o CharAt(Digits, i + 1)]]

SeqsUpTo(S, n) == UNION {[1..k -> S] : k \in 0..n}

Worlds == {Listing(rs) : rs \in SeqsUpTo(RepoLib, MaxRepos)}

ScenarioText == "Built APIs with Node.js and Express, deployed via Docker"

PolyglotText == "C++, HTML, Express and ReactJS; java"

Texts == {"", ScenarioText, PolyglotText}

Usernames == {"", "octocat"}

\* request bodies of a scan (<<>> stands for a body without selectedSkills)
Requests == [githubUsername : Usernames, resumeText : Texts, selectedSkills : {<<>>}]

\* the missing skills a plan is asked for
Selections == {<<"Docker", "React">>, <<"AWS">>}

\* request bodies asking for a plan: the texts of the scan already shown, and a selection
PlanRequests == [githubUsername : {"octocat"}, resumeText : {ScenarioText}, selectedSkills : Selections]

(***************************************************************************)
(* The POST handler as a state machine.  Every await is a position; a      *)
(* provider call is issued by the step that reaches the await and settled  *)
(* by a later step, so the calls of a Promise.all settle in any order.     *)
(***************************************************************************)
Pending == [state |-> "pending", value |-> EmptyText]

Settled(v) == [state |-> "settled", value |-> v]

isSettled(slot) == slot.state = "settled"

Call(api, repo, what) == [api |-> api, repo |-> repo, arg |-> what]

\* the calls issued so far, with one more of each call of cs
issue(cs) ==
    [c \in DOMAIN calls \cup cs |->
        (IF c \in DOMAIN calls THEN calls[c] ELSE 0) + (IF c \in cs THEN 1 ELSE 0)]

NoCalls == [c \in {} |-> 0]

NoFacts == Facts("", {}, {}, <<>>, <<>>, 0)

NewTask ==
    [pc |-> "manifests", pkg |-> Pending, reqTxt |-> Pending, deps |-> {}, pyDeps |-> {},
     blobs |-> <<>>, codeBlobs |-> <<>>, i |-> 0, batch |-> <<>>, codeSamples |-> <<>>,
     facts |-> NoFacts]

\* the provider's answers for repos[i]
answers(i) == CHOOSE r \in Range(world) : r.name = repos[i].name

NoRateLimit == [kind |-> "none"]

NoListing == [kind |-> "none"]

\* new Date(): the time at which checkRateLimit runs (milliseconds, counted from
\* the start of the request's hour)
Clock == {1000}

\* checkRateLimit: {remaining, resetTime}; remaining is -1 and resetTime the
\* current time when the query fails
checkRateLimit(answer, now) ==
    IF answer.kind = "fail" THEN [remaining |-> -1, resetTime |-> now]
    ELSE [remaining |-> answer.remaining, resetTime |-> answer.reset * 1000]

\* data.rate of rateLimit.get: remaining and reset (seconds)
RateAnswers ==
    {Fail, [kind |-> "ok", remaining |-> 0, reset |-> 600],
     [kind |-> "ok", remaining |-> 49, reset |-> 3600],
     [kind |-> "ok", remaining |-> 50, reset |-> 600]}

\* rateLimit.remaining >= 0 && rateLimit.remaining < 50, with the lower test
\* taken strictly
rateLimitTooLowStrict(remaining) == remaining > 0 /\ remaining < 50

\* rateLimit.remaining >= 0 && rateLimit.remaining < 50, with the floor itself
\* refused
rateLimitTooLowInclusive(remaining) == remaining >= 0 /\ remaining <= 50

\* rateLimit.remaining >= 0 && rateLimit.remaining < 50
rateLimitTooLow(remaining) == remaining >= 0 /\ remaining < 50

\* the 429 body: the message names the remaining quota and the reset time
RateLimitError(limit) ==
    [kind |-> "error", status |-> 429,
     error |-> [text |-> "GitHub API rate limit too low", remaining |-> limit.remaining,
                retryAfter |-> limit.resetTime]]

\* the facts taken in the order the scans settled
mergeFactsByCompletion(tasks, order) == [i \in 1..Len(tasks) |-> tasks[order[i]].facts]

\* const repoFacts = await Promise.all(repos.map(processRepo))

mergeFacts(tasks, order) == [i \in 1..Len(tasks) |-> tasks[i].facts]

\* the values of a settled batch, in batch order
batchResults(batch) == [k \in 1..Len(batch) |-> batch[k].value]

newBatch(codeBlobs, i) ==
    [k \in 1..Min(MAX_PARALLEL_BLOBS, Len(codeBlobs) - i) |-> Pending]

\* the fetches of every file from i on, requested at once
blobCallsWhole(name, codeBlobs, i) ==
    {Call("git.getBlob", name, codeBlobs[i + k].sha) : k \in 1..(Len(codeBlobs) - i)}

\* lines 989-995: the fetches of the batch that starts after codeBlobs[i]
blobCalls(name, codeBlobs, i) ==
    {Call("git.getBlob", name, codeBlobs[i + k].sha) :
        k \in 1..Min(MAX_PARALLEL_BLOBS, Len(codeBlobs) - i)}

Init ==
    /\ req \in Requests
    /\ world \in Worlds
    /\ pc = "start"
    /\ claimedSkills = <<>>
    /\ repos = <<>>
    /\ langResults = <<>>
    /\ task = <<>>
    /\ finished = <<>>
    /\ repoFacts = <<>>
    /\ response = NoResponse
    /\ calls = NoCalls
    /\ rateLimit = NoRateLimit
    /\ reposRes = NoListing
    /\ arg = <<>>
    /\ ret = <<>>

\* !x of the validation, taken as true for an undefined field only
falsyIfUndefined(x) == FALSE

\* !x for a field of the request body ("" stands for every falsy value)
falsy(x) == x = ""

\* lines 874-884: input validation, the claimed skills, the pre-flight query
Validate ==
    /\ pc = "start"
    /\ IF falsy(req.githubUsername)
       THEN /\ response' = ErrorResponse(400, "Missing GitHub username")
            /\ pc' = "done"
            /\ UNCHANGED <<claimedSkills, calls>>
       ELSE IF falsy(req.resumeText)
       THEN /\ response' = ErrorResponse(400, "Missing resumeText")
            /\ pc' = "done"
            /\ UNCHANGED <<claimedSkills, calls>>
       ELSE /\ claimedSkills' = extractClaimedSkills(req.resumeText)
            /\ calls' = issue({Call("rateLimit.get", "", "")})
            /\ pc' = "rate"
            /\ UNCHANGED response
    /\ UNCHANGED <<reposRes, rateLimit, req, world, repos, langResults, task, finished, repoFacts, arg, ret>>

\* lines 884-895: the pre-flight check, then the listing is requested
RateLimitReturn ==
    /\ pc = "rate"
    /\ \E answer \in RateAnswers, now \in Clock :
          /\ rateLimit' = checkRateLimit(answer, now)
          /\ IF rateLimitTooLow(rateLimit'.remaining)
             THEN /\ response' = RateLimitError(rateLimit')
                  /\ pc' = "done"
                  /\ UNCHANGED calls
             ELSE /\ calls' = issue({Call("repos.listForUser", "", req.githubUsername)})
                  /\ pc' = "list"
                  /\ UNCHANGED response
    /\ UNCHANGED <<reposRes, req, world, claimedSkills, repos, langResults, task, finished,
                   repoFacts, arg, ret>>

\* listForUser answers with the listing or throws; the error thrown carries
\* the provider's status, or none (0) when the provider was not reached
ListAnswers ==
    {[kind |-> "ok"]} \cup {[kind |-> "fail", status |-> st] : st \in {0, 403, 404}}

\* the catch with every failure reported as 500
errStatusFixed(err) == 500

\* const status = err?.status || 500
errStatus(err) == IF err.status = 0 THEN 500 ELSE err.status

\* lines 891-908 and 1146-1151: the listing settles; a failure is caught by the
\* handler's catch
ListReturn ==
    /\ pc = "list"
    /\ \E answer \in ListAnswers :
          /\ reposRes' = answer
          /\ IF answer.kind = "ok"
             THEN LET rs == nonForks(world)
                  IN  /\ repos' = [i \in 1..Len(rs) |->
                                     [name |-> rs[i].name,
                                      default_branch |-> branchOf(rs[i])]]
                      /\ langResults' = [i \in 1..Len(rs) |-> Pending]
                      /\ calls' = issue({Call("repos.listLanguages", rs[i].name, "") :
                                            i \in 1..Len(rs)})
                      /\ pc' = "langs"
                      /\ UNCHANGED response
             ELSE /\ response' = ErrorResponse(errStatus(answer), "Scan failed")
                  /\ pc' = "done"
                  /\ UNCHANGED <<repos, langResults, calls>>
    /\ UNCHANGED <<rateLimit, req, world, claimedSkills, task, finished, repoFacts, arg, ret>>

\* lines 904-907: one listLanguages call settles ({data: {}} when it fails)
LangReturn(i) ==
    /\ pc = "langs"
    /\ ~isSettled(langResults[i])
    /\ langResults' = [langResults EXCEPT ![i] = Settled(languagesOf(answers(i)))]
    /\ UNCHANGED <<reposRes, rateLimit, req, world, pc, claimedSkills, repos, task, finished, repoFacts,
                   response, calls, arg, ret>>

\* lines 903-930: all language calls have settled; every repository's scan
\* starts and requests its two manifests
LangsJoin ==
    /\ pc = "langs"
    /\ \A i \in 1..Len(repos) : isSettled(langResults[i])
    /\ task' = [i \in 1..Len(repos) |-> NewTask]
    /\ calls' = issue({Call("repos.getContent", repos[i].name, path) :
                          i \in 1..Len(repos), path \in {"package.json", "requirements.txt"}})
    /\ pc' = "scan"
    /\ UNCHANGED <<reposRes, rateLimit, req, world, claimedSkills, repos, langResults, finished, repoFacts,
                   response, arg, ret>>

\* line 928: the package.json fetch of repository i settles
PkgReturn(i) ==
    /\ pc = "scan"
    /\ task[i].pc = "manifests"
    /\ ~isSettled(task[i].pkg)
    /\ task' = [task EXCEPT ![i].pkg = Settled(tryGetFileText(answers(i).pkg))]
    /\ UNCHANGED <<reposRes, rateLimit, req, world, pc, claimedSkills, repos, langResults, finished,
                   repoFacts, response, calls, arg, ret>>

\* line 929: the requirements.txt fetch of repository i settles
ReqReturn(i) ==
    /\ pc = "scan"
    /\ task[i].pc = "manifests"
    /\ ~isSettled(task[i].reqTxt)
    /\ task' = [task EXCEPT ![i].reqTxt = Settled(tryGetFileText(answers(i).reqTxt))]
    /\ UNCHANGED <<reposRes, rateLimit, req, world, pc, claimedSkills, repos, langResults, finished,
                   repoFacts, response, calls, arg, ret>>

\* the tree fetches issued after the manifests, were "master" requested together
\* with the default branch
firstTreeCallsBoth(name, ref) ==
    {Call("git.getTree", name, ref), Call("git.getTree", name, "master")}

\* lines 936-938: the tree is requested for the default branch alone
firstTreeCalls(name, ref) == {Call("git.getTree", name, ref)}

\* lines 927-938: both manifests are in; parse them, request the tree
ManifestsJoin(i) ==
    /\ pc = "scan"
    /\ task[i].pc = "manifests"
    /\ isSettled(task[i].pkg) /\ isSettled(task[i].reqTxt)
    /\ task' = [task EXCEPT
                  ![i].deps = parsePackageJsonDeps(task[i].pkg.value),
                  ![i].pyDeps = IF task[i].reqTxt.value.kind = "lines"
                                THEN parseRequirements(task[i].reqTxt.value) ELSE {},
                  ![i].pc = "tree"]
    /\ calls' = issue(firstTreeCalls(repos[i].name, repos[i].default_branch))
    /\ UNCHANGED <<reposRes, rateLimit, req, world, pc, claimedSkills, repos, langResults, finished,
                   repoFacts, response, arg, ret>>

\* lines 948-1005 up to the first await: filter the tree, select the code
\* files, then either return the facts or request the first batch
afterTree(t, name, tree) ==
    LET blobs == blobsOf(tree)
        codeBlobs == codeBlobsOf(blobs)
    IN  IF Len(codeBlobs) = 0
        THEN [t EXCEPT !.blobs = blobs, !.codeBlobs = codeBlobs, !.pc = "done",
                       !.facts = Facts(name, t.deps, t.pyDeps, filesLowerOf(blobs), <<>>, 0)]
        ELSE [t EXCEPT !.blobs = blobs, !.codeBlobs = codeBlobs, !.pc = "blobs",
                       !.i = 0, !.batch = newBatch(codeBlobs, 0)]

\* lines 937-941: the tree fetch for the default branch settles
TreeReturn(i) ==
    /\ pc = "scan"
    /\ task[i].pc = "tree"
    /\ IF treeFails(answers(i), repos[i].default_branch)
       THEN /\ task' = [task EXCEPT ![i].pc = "treeFallback"]
            /\ calls' = issue({Call("git.getTree", repos[i].name, "master")})
            /\ UNCHANGED finished
       ELSE LET t == afterTree(task[i], repos[i].name,
                               answers(i).trees[repos[i].default_branch])
            IN  /\ task' = [task EXCEPT ![i] = t]
                /\ calls' = issue(IF t.pc = "blobs"
                                  THEN blobCalls(repos[i].name, t.codeBlobs, 0) ELSE {})
                /\ finished' = IF t.pc = "done" THEN Append(finished, i) ELSE finished
    /\ UNCHANGED <<reposRes, rateLimit, req, world, pc, claimedSkills, repos, langResults, repoFacts,
                   response, arg, ret>>

\* lines 940-945: the tree fetch for "master" settles; on failure the facts
\* keep the dependency sets only
TreeFallbackReturn(i) ==
    /\ pc = "scan"
    /\ task[i].pc = "treeFallback"
    /\ IF treeFails(answers(i), "master")
       THEN /\ task' = [task EXCEPT
                          ![i].pc = "done",
                          ![i].facts = factsWithoutTree(repos[i].name, task[i].deps,
                                                        task[i].pyDeps)]
            /\ finished' = Append(finished, i)
            /\ UNCHANGED calls
       ELSE LET t == afterTree(task[i], repos[i].name, answers(i).trees["master"])
            IN  /\ task' = [task EXCEPT ![i] = t]
                /\ calls' = issue(IF t.pc = "blobs"
                                  THEN blobCalls(repos[i].name, t.codeBlobs, 0) ELSE {})
                /\ finished' = IF t.pc = "done" THEN Append(finished, i) ELSE finished
    /\ UNCHANGED <<reposRes, rateLimit, req, world, pc, claimedSkills, repos, langResults, repoFacts,
                   response, arg, ret>>

\* lines 992-995: the k-th fetch of the current batch settles ("" on failure)
BlobReturn(i, k) ==
    /\ pc = "scan"
    /\ task[i].pc = "blobs"
    /\ ~isSettled(task[i].batch[k])
    /\ task' = [task EXCEPT ![i].batch[k] =
                  Settled(fetchBlobText(getBlob(answers(i),
                                                task[i].codeBlobs[task[i].i + k].sha)))]
    /\ UNCHANGED <<reposRes, rateLimit, req, world, pc, claimedSkills, repos, langResults, finished,
                   repoFacts, response, calls, arg, ret>>

\* lines 989-1005: the whole batch has settled; keep its non-empty texts in
\* batch order, then request the next batch or return the facts
BatchJoin(i) ==
    /\ pc = "scan"
    /\ task[i].pc = "blobs"
    /\ \A k \in 1..Len(task[i].batch) : isSettled(task[i].batch[k])
    /\ LET samples == pushSamples(task[i].codeSamples, batchResults(task[i].batch))
           next == task[i].i + MAX_PARALLEL_BLOBS
       IN  IF next < Len(task[i].codeBlobs)
           THEN /\ task' = [task EXCEPT ![i].codeSamples = samples, ![i].i = next,
                                        ![i].batch = newBatch(task[i].codeBlobs, next)]
                /\ calls' = issue(blobCalls(repos[i].name, task[i].codeBlobs, next))
                /\ UNCHANGED finished
           ELSE /\ task' = [task EXCEPT
                              ![i].codeSamples = samples, ![i].batch = <<>>,
                              ![i].pc = "done",
                              ![i].facts = Facts(repos[i].name, task[i].deps, task[i].pyDeps,
                                                 filesLowerOf(task[i].blobs), samples,
                                                 Len(task[i].codeBlobs))]
                /\ finished' = Append(finished, i)
                /\ UNCHANGED calls
    /\ UNCHANGED <<reposRes, rateLimit, req, world, pc, claimedSkills, repos, langResults, repoFacts,
                   response, arg, ret>>

\* lines 1009-1145: every scan has returned; merge the facts in list order,
\* score the claimed skills and answer
ScanJoin ==
    /\ pc = "scan"
    /\ \A i \in 1..Len(repos) : task[i].pc = "done"
    /\ repoFacts' = mergeFacts(task, finished)
    /\ response' = ScanResult(req.githubUsername, Len(repos), claimedSkills,
                              repoFacts', batchResults(langResults))
    /\ pc' = "done"
    /\ UNCHANGED <<reposRes, rateLimit, req, world, claimedSkills, repos, langResults, task, finished,
                   calls, arg, ret>>

Next ==
    \/ Validate
    \/ RateLimitReturn
    \/ ListReturn
    \/ \E i \in 1..Len(langResults) : LangReturn(i)
    \/ LangsJoin
    \/ \E i \in 1..Len(task) : PkgReturn(i)
    \/ \E i \in 1..Len(task) : ReqReturn(i)
    \/ \E i \in 1..Len(task) : ManifestsJoin(i)
    \/ \E i \in 1..Len(task) : TreeReturn(i)
    \/ \E i \in 1..Len(task) : TreeFallbackReturn(i)
    \/ \E i \in 1..Len(task) : \E k \in 1..Len(task[i].batch) : BlobReturn(i, k)
    \/ \E i \in 1..Len(task) : BatchJoin(i)
    \/ ScanJoin

Spec == Init /\ [][Next]_vars

\* Every provider call returns and the event loop runs every continuation that is ready:
\* as long as the handler has not returned, a step of it is eventually taken.  This is weak
\* fairness of Next with "the handler has not returned" for "a step of Next is possible".
Fairness == []<>(pc = "done") \/ []<><<Next>>_vars

\* whether and when the handler returns does not depend on the words of the resume text:
\* one text that passes the validation and one that does not
InitLive == Init /\ req.resumeText \in {"", ScenarioText}

SpecLive == InitLive /\ [][Next]_vars /\ Fairness

\* the handler answering the request the client sends for a plan
InitPlan ==
    /\ req \in PlanRequests
    /\ world \in Worlds
    /\ pc = "start"
    /\ claimedSkills = <<>>
    /\ repos = <<>>
    /\ langResults = <<>>
    /\ task = <<>>
    /\ finished = <<>>
    /\ repoFacts = <<>>
    /\ response = NoResponse
    /\ calls = NoCalls
    /\ rateLimit = NoRateLimit
    /\ reposRes = NoListing
    /\ arg = <<>>
    /\ ret = <<>>

SpecPlan == InitPlan /\ [][Next]_vars

(***************************************************************************)
(* Function specifications: the inputs of a function are drawn from        *)
(* bounded sets (arg), the actions apply it (ret); no request is running.  *)
(***************************************************************************)
NoRequest ==
    /\ req = [githubUsername |-> "", resumeText |-> "", selectedSkills |-> <<>>]
    /\ world = <<>>
    /\ pc = "idle"
    /\ claimedSkills = <<>>
    /\ repos = <<>>
    /\ langResults = <<>>
    /\ task = <<>>
    /\ finished = <<>>
    /\ repoFacts = <<>>
    /\ response = NoResponse
    /\ calls = NoCalls
    /\ rateLimit = NoRateLimit
    /\ reposRes = NoListing

handlerVars == <<req, world, pc, claimedSkills, repos, langResults, task, finished,
                 repoFacts, response, calls, rateLimit, reposRes>>

(* calculateProficiency(n, a, t) *)
MaxCount == 4
MaxFiles == 22

proficiencyOf(x) == calculateProficiency(x.n, x.a, x.t)

InitProf ==
    /\ NoRequest
    /\ arg = Counts(0, 0, 0)
    /\ ret = proficiencyOf(arg)

MoreProof ==
    /\ arg.n < MaxCount
    /\ arg' = [arg EXCEPT !.n = @ + 1]
    /\ ret' = proficiencyOf(arg')
    /\ UNCHANGED handlerVars

MoreAdvanced ==
    /\ arg.a < MaxCount
    /\ arg' = [arg EXCEPT !.a = @ + 1]
    /\ ret' = proficiencyOf(arg')
    /\ UNCHANGED handlerVars

MoreFiles ==
    /\ arg.t < MaxFiles
    /\ arg' = [arg EXCEPT !.t = @ + 1]
    /\ ret' = proficiencyOf(arg')
    /\ UNCHANGED handlerVars

NextProf == MoreProof \/ MoreAdvanced \/ MoreFiles

SpecProf == InitProf /\ [][NextProf]_vars

(* extractClaimedSkills(text) *)
MaxTextLen == 10

Fragments ==
    {"java", "Java", "Script", " ", "C++", "React", "JS", "-native", "node.", "psql"}

InitExtract ==
    /\ NoRequest
    /\ arg = ""
    /\ ret = extractClaimedSkills(arg)

AppendFragment ==
    /\ \E f \in Fragments :
          /\ Len(arg) + Len(f) <= MaxTextLen
          /\ arg' = arg \o f
    /\ ret' = extractClaimedSkills(arg')
    /\ UNCHANGED handlerVars

NextExtract == AppendFragment

SpecExtract == InitExtract /\ [][NextExtract]_vars

(* the scan's result as a function of the claimed skills and of what the   *)
(* scanned repositories answered                                           *)
MaxScanned == 4

TwoDigits(k) == CharAt(Digits, (k \div 10) + 1) \o CharAt(Digits, (k % 10) + 1)

\* twenty pages under app/, of which two can be fetched
RepoBig ==
    [name |-> "big", fork |-> FALSE, default_branch |-> "main",
     languages |-> Languages([l \in {"TypeScript", "CSS"} |->
                                 IF l = "TypeScript" THEN 9000 ELSE 1000]),
     pkg |-> File(Json({"next", "react"}, {"typescript"}, {})),
     reqTxt |-> Fail,
     trees |-> [ref \in {"main"} |->
                  [k \in 1..20 |->
                      Entry("app/p" \o TwoDigits(k) \o ".tsx", "blob", "b" \o TwoDigits(k))]],
     blobs |-> [sha \in {"b01", "b02"} |->
                  IF sha = "b01"
                  THEN Blob(Text(900, {"TypeScript", "Next.js", "React"}, {"Next.js"},
                                 {"TypeScript", "Next.js", "React"}, {"Next.js"}))
                  ELSE Blob(Text(10, {}, {}, {}, {}))]]

\* a static site whose language call fails
RepoStatic ==
    [name |-> "static", fork |-> FALSE, default_branch |-> "main",
     languages |-> Fail,
     pkg |-> Fail,
     reqTxt |-> Fail,
     trees |-> [ref \in {"main"} |->
                  <<Entry("index.html", "blob", "x1"), Entry("Dockerfile", "blob", "x2")>>],
     blobs |-> [sha \in {"x1"} |-> Blob(Text(200, {"HTML"}, {}, {"HTML"}, {}))]]

ScoreLib == {RepoApi, RepoWeb, RepoBig, RepoStatic}

\* what a scanned repository contributes: its facts and its language bytes
Scanned(r) == [facts |-> processRepo(r), languages |-> languagesOf(r)]

ScoreScans == {Scanned(r) : r \in ScoreLib}

ClaimLists ==
    {extractClaimedSkills(t) :
        t \in {"", ScenarioText, PolyglotText, "TypeScript, Next.js, Express",
                "CSS, Docker, Express"}}

scanOf(x) ==
    ScanResult("octocat", Len(x.scanned), x.claimed,
               [i \in 1..Len(x.scanned) |-> x.scanned[i].facts],
               [i \in 1..Len(x.scanned) |-> x.scanned[i].languages])

\* s with e put at position pos
InsertAt(s, pos, e) == SubSeq(s, 1, pos - 1) \o <<e>> \o SubSeq(s, pos, Len(s))

InitScore ==
    /\ NoRequest
    /\ arg \in [claimed : ClaimLists, scanned : {<<>>}]
    /\ ret = scanOf(arg)

\* the same scan with one more repository in the listing
AddRepository ==
    /\ Len(arg.scanned) < MaxScanned
    /\ \E e \in ScoreScans, pos \in 1..(Len(arg.scanned) + 1) :
          arg' = [arg EXCEPT !.scanned = InsertAt(@, pos, e)]
    /\ ret' = scanOf(arg')
    /\ UNCHANGED handlerVars

NextScore == AddRepository

SpecScore == InitScore /\ [][NextScore]_vars

(* one entry of the breakdown as a function of the skill and of what the   *)
(* scanned repositories answered                                           *)
MaxEntryRepos == 3

\* skills of the catalog, one for each path of the breakdown, and skills without rule
EntrySkills == {"C++", "TypeScript", "Express", "Docker", "Rust", "Kotlin"}

entryOf(x) ==
    breakdownEntry(x.skill,
                   [i \in 1..Len(x.scanned) |-> x.scanned[i].facts],
                   [i \in 1..Len(x.scanned) |-> x.scanned[i].languages])

InitEntry ==
    /\ NoRequest
    /\ arg \in [skill : EntrySkills, scanned : {<<>>}]
    /\ ret = entryOf(arg)

\* the same skill with one more scanned repository
AddScanned ==
    /\ Len(arg.scanned) < MaxEntryRepos
    /\ \E e \in ScoreScans : arg' = [arg EXCEPT !.scanned = Append(@, e)]
    /\ ret' = entryOf(arg')
    /\ UNCHANGED handlerVars

NextEntry == AddScanned

SpecEntry == InitEntry /\ [][NextEntry]_vars

(***************************************************************************)
(* lib/suggestions.ts: where a skill could be demonstrated, or which       *)
(* projects would demonstrate it.                                          *)
(***************************************************************************)
\* score of one repository for one skill
scoreRepoForSkill(skill, r) ==
    LET low == r.filesLower
        jsExt == {".js", ".jsx", ".ts", ".tsx"}
        pyExt == {".py"}
        someEndsWith(exts) == \E i \in 1..Len(low) : \E e \in exts : endsWith(low[i], e)
        someIncludes(part) == \E i \in 1..Len(low) : includes(low[i], part)
        lowerDeps == {toLowerCase(d) : d \in r.deps}
        plus(cond, n) == IF cond THEN n ELSE 0
    IN  plus(skill \in {"React", "Next.js", "Node.js"} /\ someEndsWith(jsExt), 3)
        + plus(skill \in {"FastAPI", "Python"} /\ someEndsWith(pyExt), 3)
        + plus(skill = "React" /\ ("react" \in lowerDeps \/ "react-dom" \in lowerDeps), 4)
        + plus(skill = "Next.js" /\ "next" \in lowerDeps, 4)
        + plus(skill = "Node.js" /\ "express" \in lowerDeps, 2)
        + plus(skill = "Docker" /\ someIncludes("dockerfile"), 5)
        + plus(skill \in {"GitHub Actions", "CI/CD"} /\ someIncludes(".github/workflows"), 5)
        + Min(2, Len(low) \div 50)

\* repoFacts.map((r) => ({ repo: r.repo, score: scoreRepoForSkill(skill, r) }))
scoredOf(skill, facts) ==
    [i \in 1..Len(facts) |-> [repo |-> facts[i].repo, score |-> scoreRepoForSkill(skill, facts[i])]]

\* the scored list left in input order
unsorted(scored) == scored

\* scored.sort((a, b) => b.score - a.score): descending, equal scores keep their order
RECURSIVE sortByScore(_)
sortByScore(scored) ==
    IF scored = <<>> THEN <<>>
    ELSE LET x == Head(scored)
             rest == sortByScore(Tail(scored))
             k == Cardinality({i \in 1..Len(rest) : rest[i].score > x.score})
         IN  SubSeq(rest, 1, k) \o <<x>> \o SubSeq(rest, k + 1, Len(rest))

NoBest == [repo |-> "", score |-> 0]

\* scored.find((s) => s.score > 0)
findBest(scored) ==
    LET hits == {i \in 1..Len(scored) : scored[i].score > 0}
    IN  IF hits = {} THEN NoBest
        ELSE scored[CHOOSE i \in hits : \A j \in hits : i <= j]

\* a.slice(0, n)
firstN(a, n) == SubSeq(a, 1, Min(n, Len(a)))

projectIdeasForSkill(s) ==
    LET lower == toLowerCase(s)
    IN  IF includes(lower, "react") THEN
            << "A notes component library that showcases interactive list and state management.",
               "A reusable form input collection with validation patterns and examples.",
               "A dashboard card component that displays live or sample data and can be reused across pages.",
               "A small UI widget library focused on accessibility and keyboard navigation." >>
        ELSE IF includes(lower, "next") THEN
            << "A minimal blog that demonstrates server rendered pages and simple post fetching.",
               "An events listing site with a server rendered index and JSON API for details.",
               "A documentation site that uses server rendering for content and a search API." >>
        ELSE IF includes(lower, "node") THEN
            << "A resume analyzer service that accepts profiles and returns simple matching suggestions.",
               "A parking helper API that tracks available spots and exposes search endpoints.",
               "A small CRUD microservice that manages items and demonstrates input validation." >>
        ELSE IF includes(lower, "docker") THEN
            << "A containerized sample web service designed to demonstrate multi stage builds.",
               "A tiny tooling image that wraps a CLI and can be run as a portable utility." >>
        ELSE IF includes(lower, "github actions") \/ includes(lower, "ci") \/ includes(lower, "cicd") THEN
            << "A continuous integration workflow that runs lint and tests for a project.",
               "A release automation workflow that builds and publishes an artifact when releasing." >>
        ELSE IF includes(lower, "test") \/ includes(lower, "testing") THEN
            << "A focused unit test suite that covers core module behavior and edge cases.",
               "A small end to end test that verifies a critical user flow for the app." >>
        ELSE IF includes(lower, "aws") THEN
            << "An S3 uploader utility that demonstrates object storage interactions.",
               "A simple Lambda function that processes input and writes results to storage." >>
        ELSE IF includes(lower, "postgres") \/ includes(lower, "mysql") \/ includes(lower, "postgresql") THEN
            << "A tiny app that illustrates database migrations and a sample analytical query.",
               "A URL shortener service that stores mappings and demonstrates basic SQL usage." >>
        ELSE IF includes(lower, "mongo") \/ includes(lower, "mongodb") THEN
            << "A notes API that stores JSON documents and demonstrates flexible queries.",
               "A content service that uses document storage for varying schemas and search." >>
        ELSE IF includes(lower, "python") THEN
            << "A small machine learning trainer that fits a random forest on a toy dataset and reports metrics.",
               "A command line CSV processor that summarizes and filters data." >>
        ELSE IF includes(lower, "java") THEN
            << "A tiny service module with one REST endpoint and a JUnit test that validates its behavior.",
               "A simple library that provides a clear example class and unit test." >>
        ELSE
            << "A focused demo project that highlights " \o s \o " with one clear outcome reviewers can run locally.",
               "A small example that exercises " \o s \o " in isolation and is easy to inspect." >>

extraProjectNamesForSkill(s) ==
    LET lower == toLowerCase(s)
    IN  IF includes(lower, "react") THEN
            << "Interactive notes app",
               "Tagged todo list",
               "Recipe manager with filters",
               "Kanban board for tasks",
               "Mini analytics dashboard" >>
        ELSE IF includes(lower, "next") THEN
            << "Server rendered personal blog",
               "Events calendar with details API",
               "Documentation site with search",
               "Minimal ecommerce product list",
               "Landing page with newsletter signup" >>
        ELSE IF includes(lower, "node") THEN
            << "Resume analyzer API",
               "Parking availability service",
               "Inventory CRUD API",
               "Authentication demo service",
               "Webhook receiver service" >>
        ELSE IF includes(lower, "python") THEN
            << "Random forest trainer for toy data",
               "CSV summarizer CLI",
               "Simple web scraper",
               "Data validation tool",
               "Small ETL pipeline" >>
        ELSE IF includes(lower, "docker") THEN
            << "Containerized web API",
               "CLI utility image",
               "Multi stage build example",
               "Containerized database with seed data",
               "Tiny microservice image" >>
        ELSE IF includes(lower, "aws") THEN
            << "S3 uploader utility",
               "Lambda image processor",
               "Simple DynamoDB key value store",
               "SNS notification demo",
               "Serverless form handler" >>
        ELSE IF includes(lower, "postgres") \/ includes(lower, "mysql") THEN
            << "URL shortener",
               "Analytics sample app",
               "Blog with migrations",
               "Order tracking table demo",
               "Simple reporting service" >>
        ELSE IF includes(lower, "mongo") THEN
            << "Notes API",
               "Content store with flexible schema",
               "Activity log service",
               "User preferences store",
               "Document tagging service" >>
        ELSE IF includes(lower, "github actions") \/ includes(lower, "ci") \/ includes(lower, "cicd") THEN
            << "Lint and test CI workflow",
               "Release automation workflow",
               "Dependency update workflow",
               "Container build and publish workflow",
               "Security scan workflow" >>
        ELSE IF includes(lower, "test") \/ includes(lower, "testing") THEN
            << "Unit test suite for core module",
               "End to end test for critical flow",
               "Property based test example",
               "Integration test against a fake service",
               "Quick performance smoke test" >>
        ELSE IF includes(lower, "java") THEN
            << "Tiny REST service module",
               "Utility library with example",
               "CLI tool with unit tests",
               "Sample Spring Boot controller",
               "Simple data processing module" >>
        ELSE
            << s \o " demo project",
               s \o " example service",
               s \o " starter app",
               s \o " small utility",
               s \o " sample module" >>

usageDetailsForSkill(s) ==
    LET lower == toLowerCase(s)
    IN  IF includes(lower, "react") THEN
            << "Add a small demo component in an examples or components folder so reviewers can see React usage in context.",
               "Document one example import and the demo page where the component is rendered so it is easy to find.",
               "Include a short note describing the component purpose and expected behavior for quick verification." >>
        ELSE IF includes(lower, "next") THEN
            << "Add one server rendered page or API route in the app or pages directory to show Next.js features.",
               "Mention the route path and the local URL to visit so reviewers can confirm server side rendering.",
               "Include a brief note about where data originates and which file demonstrates the framework usage." >>
        ELSE IF includes(lower, "node") THEN
            << "Add a compact API route or script in a server or scripts folder to show Node.js backend work.",
               "Provide one curl example or command that demonstrates the endpoint response for quick verification.",
               "Add a short description of the endpoint purpose and expected JSON fields so reviewers can validate behavior." >>
        ELSE IF includes(lower, "docker") THEN
            << "Add a Dockerfile at the project root and a .dockerignore so the repository shows containerization skills.",
               "Document exact build and run commands so reviewers can reproduce the container locally.",
               "Point to a health or status command the reviewer can run to confirm the container starts correctly." >>
        ELSE IF includes(lower, "github actions") \/ includes(lower, "ci") \/ includes(lower, "cicd") THEN
            << "Add a minimal workflow under .github/workflows that runs the project test command to demonstrate CI integration.",
               "Mention the workflow file name and the trigger (push or pull request) so reviewers can find the run.",
               "Include a short note about what the workflow verifies and how success looks in the Actions tab." >>
        ELSE IF includes(lower, "test") \/ includes(lower, "testing") THEN
            << "Add a focused unit test for a core module and expose a test script in the project manifest.",
               "Point to the test file and list the exact command to run tests so reviewers can reproduce results.",
               "Include one sentence about what the test demonstrates and any fixture or mock used." >>
        ELSE IF includes(lower, "aws") THEN
            << "Add a short example that uses the AWS SDK to perform one clear action such as uploading to S3.",
               "Document how reviewers can configure credentials or use a local emulator like LocalStack.",
               "Mention the file that contains the example and the exact command to run it for verification." >>
        ELSE IF includes(lower, "postgres") \/ includes(lower, "mysql") \/ includes(lower, "postgresql") THEN
            << "Add a migration or a small query example in a migrations or db directory to demonstrate database usage.",
               "Document the connection URL format and a one line query to run for verification.",
               "Mention the migration or seed file so reviewers can inspect the schema and sample data." >>
        ELSE IF includes(lower, "mongo") \/ includes(lower, "mongodb") THEN
            << "Add a small data example that inserts and queries a document to show MongoDB usage within the repository.",
               "Mention the script or module that runs the example and the connection string format.",
               "Include a short note about the expected document output so reviewers can confirm the example quickly." >>
        ELSE IF includes(lower, "python") THEN
            << "Add a small script and a requirements.txt and include a pytest test to make Python usage visible.",
               "Document the Python version and exact commands to create a venv and run the test.",
               "Point to the script and test file so reviewers can inspect the behavior quickly." >>
        ELSE IF includes(lower, "java") THEN
            << "Add a tiny module with a JUnit test and include build files so Java usage is visible in the repository.",
               "Mention the build command (mvn or gradle) and the test to run for verification.",
               "Point to the example class and test file so reviewers can see the demonstration immediately." >>
        ELSE
            << "Add a focused example in a clear folder and mention the file that demonstrates the skill.",
               "Document the exact command reviewers can run to verify the example.",
               "Include a one line description of what the example shows for quick inspection." >>

planForProject(name) ==
    LET low == toLowerCase(name)
    IN  IF includes(low, "notes") \/ includes(low, "notes app") THEN
            << "Build a single page that creates, edits, and lists notes with local persistence.",
               "Include a small search or tag filter to demonstrate state management or queries.",
               "Add one example data file or seed so reviewers can see sample content quickly." >>
        ELSE IF includes(low, "todo") \/ includes(low, "tasks") THEN
            << "Implement create, update, and delete flows for tasks to show CRUD behavior.",
               "Add a small filter by tag or status to demonstrate list handling and state.",
               "Provide a sample dataset or example usage that reviewers can inspect without running complex setup." >>
        ELSE IF includes(low, "resume") \/ includes(low, "analyzer") THEN
            << "Accept a simple JSON profile and return a scored summary of matching skills.",
               "Demonstrate how matching logic maps resume fields to skill categories with one example input.",
               "Include one sample input and the corresponding output so reviewers can verify the behavior quickly." >>
        ELSE IF includes(low, "parking") THEN
            << "Model available spots and a query endpoint to find nearby spots by simple criteria.",
               "Provide an example of adding and removing spots so reviewers can exercise state changes.",
               "Include one example query and the expected JSON response for quick verification." >>
        ELSE IF includes(low, "random forest") \/ includes(low, "trainer") THEN
            << "Train a small random forest on a toy dataset and report accuracy or a simple metric.",
               "Include the dataset or a script that generates synthetic data so results are reproducible.",
               "Provide the command and expected metric output so reviewers can confirm the training ran." >>
        ELSE
            << "Provide a minimal runnable entrypoint that demonstrates the core feature.",
               "Include one sample input and the expected output so reviewers can verify behavior quickly.",
               "Add a short README note explaining where the example is and how to run the verification command." >>

generateIntegrationSuggestions(skill, facts) ==
    LET best == findBest(sortByScore(scoredOf(skill, facts)))
        candidateExists == best # NoBest
        primary == firstN(projectIdeasForSkill(skill), 3)
        fresh(e) == e \notin Range(primary)
        extra == firstN(SelectSeq(extraProjectNamesForSkill(skill), fresh), 3)
        ideas == IF candidateExists THEN firstN(primary, 3) ELSE firstN(primary \o extra, 3)
    IN  IF candidateExists
        THEN [candidateExists |-> TRUE, repoName |-> best.repo,
              usage |-> "Demonstrate this skill in repository: " \o best.repo \o ".",
              usageDetails |-> usageDetailsForSkill(skill), ideas |-> ideas]
        ELSE [candidateExists |-> FALSE, ideas |-> ideas,
              projectPlans |-> [n \in Range(ideas) |-> planForProject(n)]]

(* generateIntegrationSuggestions(skill, repoFacts) *)
MaxFacts == 3

SuggestSkills == {"React", "Next.js", "Node.js", "Docker", "CI/CD", "Python", "PostgreSQL", "Rust"}

\* a repository of fifty data files
FactsDocs ==
    Facts("docs", {}, {}, [k \in 1..50 |-> "data/p" \o TwoDigits(k) \o ".json"], <<>>, 0)

\* a repository of deployment files
FactsOps ==
    Facts("ops", {}, {}, <<"deploy/dockerfile.yml", ".github/workflows/ci.yml">>, <<>>, 0)

SuggestFacts == {processRepo(r) : r \in {RepoApi, RepoWeb, RepoBig}} \cup {FactsDocs, FactsOps}

suggestionsOf(x) == generateIntegrationSuggestions(x.skill, x.facts)

InitSuggest ==
    /\ NoRequest
    /\ arg \in [skill : SuggestSkills, facts : {<<>>}]
    /\ ret = suggestionsOf(arg)

\* the same skill with one more scanned repository
AddFacts ==
    /\ Len(arg.facts) < MaxFacts
    /\ \E f \in SuggestFacts :
          /\ \A i \in 1..Len(arg.facts) : arg.facts[i].repo # f.repo
          /\ arg' = [arg EXCEPT !.facts = Append(@, f)]
    /\ ret' = suggestionsOf(arg')
    /\ UNCHANGED handlerVars

NextSuggest == AddFacts

SpecSuggest == InitSuggest /\ [][NextSuggest]_vars

(***************************************************************************)
(* Properties of the scan's result.                                        *)
(***************************************************************************)
answered == pc = "done" /\ response.kind = "ScanResult"

onPurePath(skill) == RULES(skill).linguistLang # "" /\ skill \in pureLinguistSkills

onHybridPath(skill) ==
    ~onPurePath(skill) /\ RULES(skill).linguistLang # "" /\ skill \in hybridLanguages

onEvidencePath(skill) == ~onPurePath(skill) /\ ~onHybridPath(skill)

\* C1: every entry of the breakdown of a ScanResult has a score that is an
\* integer between 0 and 100, on the pure-language path (C++), on the hybrid
\* path and on the evidence-signal path alike.
C1_ScoreInRange ==
    answered =>
        \A i \in 1..Len(response.breakdown) : response.breakdown[i].score \in 0..100

\* a ScanResult with a positive score on each of the three paths
C1_Witness ==
    /\ answered
    /\ \E i, j, k \in 1..Len(response.breakdown) :
          /\ onPurePath(response.breakdown[i].skill)
          /\ onHybridPath(response.breakdown[j].skill)
          /\ onEvidencePath(response.breakdown[k].skill)
          /\ response.breakdown[i].score > 0
          /\ response.breakdown[j].score > 0
          /\ response.breakdown[k].score = 100

\* C2: overallScore is the mean of the breakdown's scores rounded to the
\* nearest integer (at most one half away from the mean) when skills are
\* claimed, and 0 when none is.
C2_OverallIsRoundedMean ==
    LET n == Len(ret.claimedSkills)
        sum == SeqSum([i \in 1..Len(ret.breakdown) |-> ret.breakdown[i].score])
    IN  /\ Len(ret.breakdown) = n
        /\ IF n = 0 THEN ret.overallScore = 0
           ELSE /\ 2 * (n * ret.overallScore - sum) <= n
                /\ 2 * (sum - n * ret.overallScore) <= n

\* a result whose mean is not an integer and was rounded upwards
C2_Witness ==
    /\ Len(ret.claimedSkills) >= 3
    /\ Len(arg.scanned) >= 1
    /\ Len(ret.claimedSkills) * ret.overallScore
          > SeqSum([i \in 1..Len(ret.breakdown) |-> ret.breakdown[i].score])

\* C3: provenSkills and missingProof partition claimedSkills; a skill is
\* proven exactly when its score is at least 25, which is exactly when its
\* status is not "Needs attention"; the status is "Needs attention" below 25,
\* "Medium" from 25 to 59 and "Good" from 60.
C3_ProvenMissingPartition ==
    LET b == ret.breakdown
        proven == Range(ret.provenSkills)
        missing == Range(ret.missingProof)
    IN  /\ proven \cap missing = {}
        /\ proven \cup missing = Range(ret.claimedSkills)
        /\ Len(ret.provenSkills) + Len(ret.missingProof) = Len(ret.claimedSkills)
        /\ Len(b) = Len(ret.claimedSkills)
        /\ \A i \in 1..Len(b) :
              /\ b[i].skill = ret.claimedSkills[i]
              /\ b[i].skill \in proven <=> b[i].score >= 25
              /\ b[i].score >= 25 <=> b[i].status # "Needs attention"
              /\ b[i].status = (IF b[i].score < 25 THEN "Needs attention"
                                ELSE IF b[i].score < 60 THEN "Medium" ELSE "Good")

\* a result with a skill exactly at 25 (proven), one below and one from 60
C3_Witness ==
    \E i, j, k \in 1..Len(ret.breakdown) :
        /\ ret.breakdown[i].score = 25
        /\ ret.breakdown[i].skill \in Range(ret.provenSkills)
        /\ ret.breakdown[j].score < 25
        /\ ret.breakdown[j].skill \in Range(ret.missingProof)
        /\ ret.breakdown[k].score >= 60
        /\ ret.breakdown[k].skill \in Range(ret.provenSkills)

\* the repository counts as signaling for the skill in the evidence loop
signalsFor(skill, r) == repoSignal(skill, RULES(skill), r) > 0

\* C4: adding one more repository that signals for a claimed skill, at any
\* position of the scanned list, never decreases that skill's score (stated
\* for the skills scored by the evidence-signal loop).
C4_Monotone ==
    [][\A e \in ScoreScans, pos \in 1..(Len(arg.scanned) + 1), i \in 1..Len(arg.claimed) :
          (/\ arg'.scanned = InsertAt(arg.scanned, pos, e)
           /\ onEvidencePath(arg.claimed[i])
           /\ signalsFor(arg.claimed[i], e.facts))
          => ret'.breakdown[i].score >= ret.breakdown[i].score]_vars

\* a scan of four repositories that all signal for a claimed skill, of which
\* the loop counted three and none as advanced although one is
C4_Witness ==
    /\ Len(arg.scanned) = 4
    /\ \E i \in 1..Len(arg.claimed) :
          /\ onEvidencePath(arg.claimed[i])
          /\ \A k \in 1..4 : signalsFor(arg.claimed[i], arg.scanned[k].facts)
          /\ advancedHit(arg.claimed[i], RULES(arg.claimed[i]), arg.scanned[4].facts)
          /\ ret.breakdown[i].score = 65

(***************************************************************************)
(* Properties of calculateProficiency.                                     *)
(***************************************************************************)
\* the tiers in increasing order
tierRank(level) ==
    CASE level = "None" -> 0
      [] level = "Beginner" -> 1
      [] level = "Intermediate" -> 2
      [] level = "Expert" -> 3

\* C5: the tier returned by calculateProficiency(n, a, t) never gets lower
\* when n or a is increased with the other inputs fixed, and the tier is
\* "None" if and only if n is 0.
C5_TierOrdering ==
    /\ [](ret.level = "None" <=> arg.n = 0)
    /\ [][(arg'.t = arg.t /\ arg'.n >= arg.n /\ arg'.a >= arg.a)
             => tierRank(ret'.level) >= tierRank(ret.level)]_vars

\* more than two advanced repositories, still the highest tier
C5_Witness == arg.n >= 2 /\ arg.a >= 3 /\ ret.level = "Expert"

(***************************************************************************)
(* Properties of the concurrent scan.                                      *)
(***************************************************************************)
\* C6: the response is a function of the request and of the provider's
\* answers alone, whatever the order in which the repository scans, the
\* manifest fetches and the blob fetches settle: each scan's facts are what
\* the scan computes when it runs alone, the facts are merged in list order,
\* and the breakdown is the one computed from them.
C6_SameResultInAnyOrder ==
    /\ pc = "scan" =>
          \A i \in 1..Len(task) :
              task[i].pc = "done" => task[i].facts = processRepo(answers(i))
    /\ answered =>
          LET listed == nonForks(world)
              facts == [i \in 1..Len(listed) |-> processRepo(listed[i])]
              langs == [i \in 1..Len(listed) |-> languagesOf(listed[i])]
          IN  /\ repoFacts = facts
              /\ \A i \in 1..Len(repos) : repoFacts[i].repo = repos[i].name
              /\ response = ScanResult(req.githubUsername, Len(listed),
                                       extractClaimedSkills(req.resumeText), facts, langs)

\* a ScanResult for two different repositories whose scans settled in the
\* reverse of the list order
C6_Witness ==
    /\ answered
    /\ finished = <<2, 1>>
    /\ repoFacts[1] # repoFacts[2]
    /\ Len(repoFacts[1].codeSamples) > 0
    /\ Len(response.breakdown) > 0

(***************************************************************************)
(* Properties of extractClaimedSkills.                                     *)
(***************************************************************************)
sameLetter(a, b) == LowerChar(a) = LowerChar(b)

\* p occurs in text, letter case ignored
occursIn(text, p) ==
    \E i \in 0..(Len(text) - Len(p)) :
        \A j \in 1..Len(p) : sameLetter(CharAt(text, i + j), CharAt(p, j))

\* C7: extractClaimedSkills returns exactly the catalog skills whose name or
\* one of whose synonyms occurs in the text as a case-insensitive substring
\* (no word boundary needed); the result holds catalog skills only and each
\* at most once.
C7_ExactCaseInsensitiveMatch ==
    /\ \A i, j \in 1..Len(ret) : i # j => ret[i] # ret[j]
    /\ Range(ret) \subseteq SkillSet
    /\ \A s \in SkillSet :
          s \in Range(ret) <=>
              \/ occursIn(arg, s)
              \/ \E k \in 1..Len(synonyms(s)) : occursIn(arg, synonyms(s)[k])

\* a text holding "javaScript" only: Java is found as well
C7_Witness == arg = "javaScript" /\ ret = <<"Java", "JavaScript">>

(***************************************************************************)
(* Scenarios of the handler.                                               *)
(***************************************************************************)
\* C8: a request with a username and an empty resume text is not rejected,
\* and its ScanResult has claimedSkills = [], overallScore = 0 and
\* breakdown = [].
C8_EmptyResumeText ==
    (pc = "done" /\ req.githubUsername # "" /\ req.resumeText = "") =>
        /\ response.status # 400
        /\ response.kind = "ScanResult" =>
              /\ response.claimedSkills = <<>>
              /\ response.overallScore = 0
              /\ response.breakdown = <<>>

\* the request with an empty resume text has been answered
C8_Witness ==
    /\ pc = "done"
    /\ req.githubUsername # "" /\ req.resumeText = ""
    /\ response = ErrorResponse(400, "Missing resumeText")

\* C9: when no repository is listed or every listed repository is a fork,
\* the scan returns reposAnalyzed = 0 and every claimed skill scores 0, on
\* the evidence-signal path and on the language-percentage paths.
C9_NoOwnRepositories ==
    (answered /\ \A i \in 1..Len(world) : world[i].fork) =>
        /\ response.reposAnalyzed = 0
        /\ \A i \in 1..Len(response.breakdown) : response.breakdown[i].score = 0

\* a listing of forks only, scanned for skills of all three paths
C9_Witness ==
    /\ answered
    /\ Len(world) > 0
    /\ \A i \in 1..Len(world) : world[i].fork
    /\ \E i, j, k \in 1..Len(response.breakdown) :
          /\ onPurePath(response.breakdown[i].skill)
          /\ onHybridPath(response.breakdown[j].skill)
          /\ onEvidencePath(response.breakdown[k].skill)

\* the signaling-repository count of the evidence loop for the skill
signalingCount(skill) == signalLoop(skill, RULES(skill), repoFacts, 1, Counts(0, 0, 0)).n

\* C10: for the resume text "Built APIs with Node.js and Express, deployed
\* via Docker" and one repository whose package.json lists express and whose
\* tree has a root Dockerfile, claimedSkills holds Node.js, Express and
\* Docker, and Docker and Express each have a signaling-repository count of
\* at least 1, a score of at least 50 and the status "Medium" or "Good".
C10_DockerExpressScenario ==
    (answered /\ req.resumeText = ScenarioText /\ world = Listing(<<RepoApi>>)) =>
        /\ {"Node.js", "Express", "Docker"} \subseteq Range(response.claimedSkills)
        /\ \A i \in 1..Len(response.breakdown) :
              response.breakdown[i].skill \in {"Docker", "Express"} =>
                  /\ signalingCount(response.breakdown[i].skill) >= 1
                  /\ response.breakdown[i].score >= 50
                  /\ response.breakdown[i].status \in {"Medium", "Good"}

\* the scenario's scan has answered: the Dockerfile is not among the scanned
\* files and Docker scores 0
C10_Witness ==
    /\ answered /\ req.resumeText = ScenarioText /\ world = Listing(<<RepoApi>>)
    /\ \A k \in 1..Len(repoFacts[1].filesLower) :
          ~includes(repoFacts[1].filesLower[k], "dockerfile")
    /\ \E i \in 1..Len(response.breakdown) :
          /\ response.breakdown[i].skill = "Docker"
          /\ response.breakdown[i].score = 0
          /\ response.breakdown[i].status = "Needs attention"

(***************************************************************************)
(* Refusals and failures of the handler.                                   *)
(***************************************************************************)
\* C11: when the pre-flight check reports a remaining quota below the floor
\* of 50, the request is answered with status 429, the message names the
\* reset time, and no listing, language, manifest, tree or blob call is
\* ever issued for the request.
C11_RateLimitRefusal ==
    (rateLimit # NoRateLimit /\ rateLimit.remaining >= 0 /\ rateLimit.remaining < 50) =>
        /\ pc = "done"
        /\ response.kind = "error"
        /\ response.status = 429
        /\ response.error.retryAfter = rateLimit.resetTime
        /\ \A c \in DOMAIN calls : c.api = "rateLimit.get"

\* refused at the empty quota, the reset time named
C11_Witness ==
    /\ pc = "done"
    /\ rateLimit # NoRateLimit
    /\ rateLimit.remaining = 0
    /\ response.status = 429
    /\ response.error.retryAfter = 600 * 1000
    /\ DOMAIN calls = {Call("rateLimit.get", "", "")}

\* C12: a request without a githubUsername or without a resumeText is
\* answered with status 400 and an error message, and no call to the
\* provider, the rate-limit check included, is made for it.
C12_InputValidation ==
    (req.githubUsername = "" \/ req.resumeText = "") =>
        /\ calls = NoCalls
        /\ pc \in {"start", "done"}
        /\ pc = "done" =>
              /\ response.kind = "error"
              /\ response.status = 400
              /\ response.error # ""

\* a request without username, refused
C12_Witness ==
    /\ pc = "done"
    /\ req.githubUsername = "" /\ req.resumeText # ""
    /\ response = ErrorResponse(400, "Missing GitHub username")
    /\ calls = NoCalls

\* C13: when the repository-listing call fails the scan is aborted: the
\* response is an error object without any ScanResult field, its status is
\* the provider's status (500 when the failure carries none), and no
\* per-repository fetch is started.
C13_ListingFailureAborts ==
    reposRes.kind = "fail" =>
        /\ pc = "done"
        /\ response.kind = "error"
        /\ response.status = (IF reposRes.status = 0 THEN 500 ELSE reposRes.status)
        /\ DOMAIN response = {"kind", "status", "error"}
        /\ response.error # ""
        /\ \A c \in DOMAIN calls : c.api \in {"rateLimit.get", "repos.listForUser"}
        /\ langResults = <<>> /\ task = <<>>

\* the listing was refused by the provider (403) although repositories exist
C13_Witness ==
    /\ reposRes = [kind |-> "fail", status |-> 403]
    /\ response = ErrorResponse(403, "Scan failed")
    /\ Len(nonForks(world)) > 0
    /\ pc = "done"

\* the provider's answers for a repository with every failed call replaced
\* by an answer without data: no languages, a package.json and a
\* requirements.txt without entries, an empty tree, empty blobs
withoutFailures(r) ==
    LET tree == IF ~treeFails(r, branchOf(r)) THEN r.trees[branchOf(r)]
                ELSE IF ~treeFails(r, "master") THEN r.trees["master"]
                ELSE <<>>
        shas == {tree[k].sha : k \in 1..Len(tree)} \cup DOMAIN r.blobs
    IN  [r EXCEPT
           !.languages = IF @.kind = "fail" THEN Languages(NoLanguages) ELSE @,
           !.pkg = IF @.kind = "fail" THEN File(Json({}, {}, {})) ELSE @,
           !.reqTxt = IF @.kind = "fail" THEN File(Lines(<<>>)) ELSE @,
           !.trees = [ref \in {branchOf(r)} |-> tree],
           !.blobs = [sha \in shas |->
                        IF getBlob(r, sha).kind = "fail" THEN Blob(EmptyText)
                        ELSE r.blobs[sha]]]

\* C14: once the listing has succeeded, a failing language, manifest, tree
\* or blob call never ends the request and is never reported: the response
\* is a full ScanResult, the repository is counted in reposAnalyzed, and the
\* result is the one obtained when the failed calls return no data.
C14_PartialFailuresSwallowed ==
    (pc = "done" /\ reposRes.kind = "ok") =>
        LET listed == nonForks(world)
            facts == [i \in 1..Len(listed) |-> processRepo(withoutFailures(listed[i]))]
            langs == [i \in 1..Len(listed) |-> languagesOf(withoutFailures(listed[i]))]
        IN  /\ response.kind = "ScanResult"
            /\ response.status = 200
            /\ response.reposAnalyzed = Len(listed)
            /\ repoFacts = facts
            /\ response = ScanResult(req.githubUsername, Len(listed), claimedSkills,
                                     facts, langs)

\* a scan of two repositories: for one the language call, the package.json
\* parse and both tree calls fail, for the other a blob call
C14_Witness ==
    /\ pc = "done" /\ reposRes.kind = "ok"
    /\ response.kind = "ScanResult"
    /\ response.reposAnalyzed = 2
    /\ \E i, j \in 1..2 :
          /\ answers(i).languages.kind = "fail"
          /\ treeFails(answers(i), branchOf(answers(i)))
          /\ treeFails(answers(i), "master")
          /\ repoFacts[i].pyDeps # {}
          /\ \E k \in 1..Len(task[j].codeBlobs) :
                getBlob(answers(j), task[j].codeBlobs[k].sha).kind = "fail"
          /\ Len(repoFacts[j].codeSamples) < repoFacts[j].totalCodeFiles

(***************************************************************************)
(* Integration suggestions                                                 *)
(***************************************************************************)
\* the affinity scores of the repositories handed to the function, in input order
affinity == [i \in 1..Len(arg.facts) |-> scoreRepoForSkill(arg.skill, arg.facts[i])]

\* C15: generateIntegrationSuggestions says that a candidate exists exactly when some
\* repository has an affinity score above 0; the repository it then names is the first, in
\* input order, of those with the greatest score, and the usage details have exactly three
\* steps; with no candidate it answers between one and three project ideas, each with a plan
\* of exactly three steps; the answer is a function of the input alone.
C15_SuggestionShape ==
    LET some == \E i \in DOMAIN affinity : affinity[i] > 0
        top == CHOOSE i \in DOMAIN affinity :
                   /\ \A j \in DOMAIN affinity : affinity[j] <= affinity[i]
                   /\ \A j \in 1..(i - 1) : affinity[j] < affinity[i]
    IN  /\ ret = generateIntegrationSuggestions(arg.skill, arg.facts)
        /\ ret.candidateExists = some
        /\ some =>
             /\ ret.repoName = arg.facts[top].repo
             /\ Len(ret.usageDetails) = 3
        /\ ~some =>
             /\ Len(ret.ideas) \in 1..3
             /\ \A k \in 1..Len(ret.ideas) :
                   /\ ret.ideas[k] \in DOMAIN ret.projectPlans
                   /\ Len(ret.projectPlans[ret.ideas[k]]) = 3

\* a later repository beats an earlier one that also scores, and a skill without candidate
C15_Witness ==
    /\ Len(arg.facts) >= 2
    /\ affinity[1] > 0
    /\ affinity[2] > affinity[1]
    /\ ret.candidateExists
    /\ ret.repoName = arg.facts[2].repo

C15_WitnessNoCandidate ==
    /\ Len(arg.facts) >= 1
    /\ \A i \in DOMAIN affinity : affinity[i] = 0
    /\ ~ret.candidateExists
    /\ Len(ret.ideas) = 3

(***************************************************************************)
(* Remediation plan of the scan endpoint                                   *)
(***************************************************************************)
\* C16: when the request body carries selectedSkills, the successful response of the scan
\* endpoint also contains a remediation plan (actionPlan) with one entry per selected skill.
C16_PlanPerSelectedSkill ==
    (answered /\ response.kind = "ScanResult" /\ req.selectedSkills # <<>>) =>
        /\ "actionPlan" \in DOMAIN response
        /\ Len(response.actionPlan) = Len(req.selectedSkills)
        /\ \A i \in 1..Len(req.selectedSkills) :
              response.actionPlan[i].skill = req.selectedSkills[i]

\* a scan asked with two selected skills has been answered
C16_Witness ==
    /\ answered
    /\ response.kind = "ScanResult"
    /\ req.selectedSkills = <<"Docker", "React">>
    /\ "Docker" \in Range(response.missingProof)
    /\ DOMAIN response = {"kind", "status", "githubUsername", "reposAnalyzed", "overallScore",
                          "claimedSkills", "provenSkills", "missingProof", "breakdown"}

(***************************************************************************)
(* Termination and shape of the response                                   *)
(***************************************************************************)
ScanResultFields ==
    {"githubUsername", "reposAnalyzed", "overallScore", "claimedSkills", "provenSkills",
     "missingProof", "breakdown"}

\* a complete scan result and nothing of an error
fullScanResult(r) ==
    /\ r.kind = "ScanResult"
    /\ DOMAIN r = {"kind", "status"} \cup ScanResultFields
    /\ r.status = 200

\* an error object: a message and an HTTP error status, nothing of a scan result
errorObject(r) ==
    /\ r.kind = "error"
    /\ DOMAIN r = {"kind", "status", "error"}
    /\ r.status \in 400..599
    /\ IF r.status = 429 THEN r.error.text # "" ELSE r.error # ""

\* C17: provided every provider call eventually returns, each request terminates with exactly
\* one response, which is either a full ScanResult (all seven fields) or an error object with
\* a message and an HTTP error status, never a mix or a partial result.
C17_TerminatesWithOneResponse ==
    /\ <>(pc = "done")
    /\ [](pc = "done" <=> response # NoResponse)
    /\ [](pc = "done" => (fullScanResult(response) \/ errorObject(response)))
    /\ [][response # NoResponse => response' = response]_vars

\* a scan of two repositories has ended although calls of both failed
C17_Witness ==
    /\ pc = "done"
    /\ fullScanResult(response)
    /\ Len(finished) = 2
    /\ \A i \in 1..2 : treeFails(answers(i), branchOf(answers(i)))

(***************************************************************************)
(* Skills without evidence rule                                            *)
(***************************************************************************)
\* the indicator, dependency and regex fields of a rule are all absent or empty
noEvidenceFields(rules) ==
    /\ rules.fileIndicators = <<>>
    /\ rules.deps = <<>>
    /\ rules.pyDeps = <<>>
    /\ rules.importRegex = 0

\* C18: a claimed skill that has no rule, or whose rule has no indicator, dependency or regex
\* field, scores 0 with status "Needs attention" whatever the repository facts are.
C18_NoRuleScoresZero ==
    noEvidenceFields(RULES(arg.skill)) =>
        /\ ret.skill = arg.skill
        /\ ret.score = 0
        /\ ret.status = "Needs attention"

\* a skill without rule scored over repositories that prove other skills
C18_Witness ==
    /\ arg.skill \notin SkillSet
    /\ noEvidenceFields(RULES(arg.skill))
    /\ Len(arg.scanned) = 3
    /\ \E i \in 1..3 : repoSignal("Express", RULES("Express"), arg.scanned[i].facts) > 0
    /\ \E i \in 1..3 : arg.scanned[i].facts.totalCodeFiles > 0
    /\ ret.score = 0
    /\ ret.status = "Needs attention"

(***************************************************************************)
(* Proficiency against its derivation                                      *)
(***************************************************************************)
\* C19: for all n, a, t >= 0, calculateProficiency(n, a, t) is (0, "None") when n = 0;
\* otherwise, with base = 50 if n = 1 else 100 and boosted = min(100, base + min(20, 10 * a)),
\* it is (boosted, "Expert") if a >= 2 and boosted >= 80, else (max(boosted, 60),
\* "Intermediate") if a >= 1 or (n >= 2 and t >= 20), else (min(boosted, 65), "Beginner").
C19_ProficiencyDerivation ==
    LET n == arg.n
        a == arg.a
        t == arg.t
        base == IF n = 1 THEN 50 ELSE 100
        tenfold == 10 * a
        boost == IF tenfold < 20 THEN tenfold ELSE 20
        boosted == IF base + boost < 100 THEN base + boost ELSE 100
    IN  /\ n >= 0 /\ a >= 0 /\ t >= 0
        /\ n = 0 => ret = [level |-> "None", score |-> 0]
        /\ (n > 0 /\ a >= 2 /\ boosted >= 80) => ret = [level |-> "Expert", score |-> boosted]
        /\ (n > 0 /\ ~(a >= 2 /\ boosted >= 80) /\ (a >= 1 \/ (n >= 2 /\ t >= 20))) =>
              ret = [level |-> "Intermediate", score |-> IF boosted > 60 THEN boosted ELSE 60]
        /\ (n > 0 /\ ~(a >= 2 /\ boosted >= 80) /\ ~(a >= 1 \/ (n >= 2 /\ t >= 20))) =>
              ret = [level |-> "Beginner", score |-> IF boosted < 65 THEN boosted ELSE 65]

\* one signaling repository with two advanced ones: boosted is 70, short of Expert
C19_Witness ==
    /\ arg = Counts(1, 2, 0)
    /\ ret = [level |-> "Intermediate", score |-> 70]

(***************************************************************************)
(* Early termination of the evidence-signal loop                           *)
(***************************************************************************)
\* the counts of the evidence-signal loop when every repository of the list is evaluated
RECURSIVE countsOfEvery(_, _, _, _, _)
countsOfEvery(skill, rules, facts, i, c) ==
    IF i > Len(facts) THEN c
    ELSE countsOfEvery(skill, rules, facts, i + 1, signalStep(skill, rules, facts[i], c))

\* the tier of the skill when every scanned repository is evaluated
tierOfEvery(skill) ==
    LET facts == [k \in 1..Len(arg.scanned) |-> arg.scanned[k].facts]
        c == countsOfEvery(skill, RULES(skill), facts, 1, Counts(0, 0, 0))
    IN  calculateProficiency(c.n, c.a, c.t).level

\* C20: on the evidence-signal path, stopping the repository loop as soon as three signaling
\* repositories are counted yields the same proficiency tier for the skill as evaluating
\* every repository of the list.
C20_EarlyExitKeepsTier ==
    \A i \in 1..Len(arg.claimed) :
        onEvidencePath(arg.claimed[i]) =>
            ret.breakdown[i].proficiency = tierOfEvery(arg.claimed[i])

\* the loop stopped at the third of four repositories, all signaling for a claimed skill
C20_Witness ==
    /\ Len(arg.scanned) = 4
    /\ \E i \in 1..Len(arg.claimed) :
          /\ onEvidencePath(arg.claimed[i])
          /\ \A k \in 1..3 : signalsFor(arg.claimed[i], arg.scanned[k].facts)
          /\ signalsFor(arg.claimed[i], arg.scanned[4].facts)
          /\ ret.breakdown[i].proficiency = "Beginner"
          /\ tierOfEvery(arg.claimed[i]) = "Intermediate"

(***************************************************************************)
(* Order of the repository facts                                           *)
(***************************************************************************)
\* the permutations of 1..n
permutationsOf(n) == {p \in [1..n -> 1..n] : \A i, j \in 1..n : p[i] = p[j] => i = j}

\* the scan of the same repositories listed in the order p
scanInOrder(p) == scanOf([arg EXCEPT !.scanned = [i \in 1..Len(arg.scanned) |-> arg.scanned[p[i]]]])

\* the score, status and tier of an entry (the tier of an entry without one reads "")
scoredAs(entry) ==
    <<entry.skill, entry.score, entry.status,
      IF "proficiency" \in DOMAIN entry THEN entry.proficiency ELSE "">>

\* C21: for every permutation of the list of repository facts, the score, status and
\* proficiency tier of each claimed skill, and the overallScore, are unchanged.
C21_OrderIndependent ==
    \A p \in permutationsOf(Len(arg.scanned)) :
        /\ scanInOrder(p).overallScore = ret.overallScore
        /\ \A i \in 1..Len(arg.claimed) :
              scoredAs(scanInOrder(p).breakdown[i]) = scoredAs(ret.breakdown[i])

\* four repositories signal for a claimed skill; listed with the advanced one first the
\* skill is scored higher than listed with it last
C21_Witness ==
    /\ Len(arg.scanned) = 4
    /\ \E i \in 1..Len(arg.claimed) :
          /\ onEvidencePath(arg.claimed[i])
          /\ \A k \in 1..4 : signalsFor(arg.claimed[i], arg.scanned[k].facts)
          /\ ret.breakdown[i].score = 65
          /\ scanInOrder([k \in 1..4 |-> 5 - k]).breakdown[i].score = 100

(***************************************************************************)
(* The tree fetch and its fallback                                         *)
(***************************************************************************)
\* how often the call c has been issued
issued(c) == IF c \in DOMAIN calls THEN calls[c] ELSE 0

\* the tree attempts made for repos[i]: on the default branch, on "master"
treeAttempts(i) ==
    [first |-> issued(Call("git.getTree", repos[i].name, repos[i].default_branch)),
     fallback |-> IF repos[i].default_branch = "master" THEN 0
                  ELSE issued(Call("git.getTree", repos[i].name, "master"))]

\* the blob fetches issued for repos[i]
blobFetches(i) == {c \in DOMAIN calls : c.api = "git.getBlob" /\ c.repo = repos[i].name}

\* C22: per repository the tree is fetched for the default branch and, only if
\* that fails, once more for "master" (at most two attempts); if both fail the
\* facts have empty filesLower and codeSamples and totalCodeFiles = 0 but keep
\* the dependency sets parsed from the manifests, and no blob is fetched.
C22_TreeFallback ==
    pc \in {"scan", "done"} =>
        \A i \in 1..Len(task) :
            LET tried == treeAttempts(i)
                r == answers(i)
            IN  /\ tried.first <= 1 /\ tried.fallback <= 1
                /\ tried.fallback = 1 =>
                      /\ tried.first = 1
                      /\ task[i].pc \notin {"manifests", "tree"}
                      /\ treeFails(r, repos[i].default_branch)
                /\ (task[i].pc = "done" /\ treeFails(r, repos[i].default_branch)) =>
                      tried.fallback = 1
                /\ (task[i].pc = "done" /\ treeFails(r, repos[i].default_branch)
                       /\ treeFails(r, "master")) =>
                      /\ task[i].facts.filesLower = <<>>
                      /\ task[i].facts.codeSamples = <<>>
                      /\ task[i].facts.totalCodeFiles = 0
                      /\ task[i].facts.deps = depsOf(r)
                      /\ task[i].facts.pyDeps = pyDepsOf(r)
                      /\ blobFetches(i) = {}

\* for one repository the default branch has no tree and "master" has one,
\* whose files are fetched; for another both attempts failed and its
\* requirements were kept
C22_Witness ==
    /\ pc = "scan"
    /\ \E i, j \in 1..Len(task) :
          /\ task[i].pc = "done" /\ task[j].pc = "done"
          /\ treeAttempts(i) = [first |-> 1, fallback |-> 1]
          /\ ~treeFails(answers(i), "master")
          /\ blobFetches(i) # {}
          /\ treeAttempts(j) = [first |-> 1, fallback |-> 1]
          /\ treeFails(answers(j), "master")
          /\ task[j].facts.pyDeps # {}
          /\ blobFetches(j) = {}

(***************************************************************************)
(* The tree filter as a function of the tree: lines 948-985                *)
(***************************************************************************)
MaxTreeEntries == 2

\* a three-digit numeral
numeral(k) ==
    CharAt(Digits, (k \div 100) + 1) \o CharAt(Digits, ((k \div 10) % 10) + 1)
        \o CharAt(Digits, (k % 10) + 1)

\* n generated files of one directory: data files first, then m source files
generated(n, m) ==
    [k \in 1..n |-> Entry("s/f" \o numeral(k) \o (IF k > n - m THEN ".ts" ELSE ".json"),
                          "blob", "g" \o numeral(k))]

\* a tree at the limits: four entries the filter rejects, then
\* MAX_FILES_PER_REPO - 1 files it keeps, MAX_CODE_FILES_FETCH of them code
TreeWide ==
    <<Entry("NOTES.txt", "blob", "w1"), Entry("yarn.lock.json", "blob", "w2"),
      Entry("out/gen.js", "blob", "w3"), Entry("s", "tree", "w4")>>
        \o generated(MAX_FILES_PER_REPO - 1, MAX_CODE_FILES_FETCH)

\* single entries: kept or rejected for one reason each
TreeEntries ==
    {Entry("src/Index.TS", "blob", "e1"),
     Entry("conf/Settings.PY", "blob", "e2"),
     Entry("lib/util.java", "blob", "e3"),
     Entry("package.json", "blob", "e4"),
     Entry("build.gradle", "blob", "e5"),
     Entry(".github/workflows/ci.yml", "blob", "e6"),
     Entry("Docs/guide.yml", "blob", "e7"),
     Entry("web/node_modules/x.js", "blob", "e8"),
     Entry("lib/App.Min.js", "blob", "e9"),
     Entry("package-lock.json", "blob", "e10"),
     Entry("Dockerfile", "blob", "e11"),
     Entry("src/api", "tree", "e12")}

\* the kept entries, their lower-cased paths and the files selected for fetch
filterOf(tree) ==
    LET blobs == blobsOf(tree)
    IN  [blobs |-> blobs, filesLower |-> filesLowerOf(blobs), codeBlobs |-> codeBlobsOf(blobs)]

InitTree ==
    /\ NoRequest
    /\ arg \in {<<>>, TreeWide}
    /\ ret = filterOf(arg)

\* the same tree with one more entry
AddEntry ==
    /\ Cardinality(Range(arg) \cap TreeEntries) < MaxTreeEntries
    /\ \E e \in TreeEntries :
          /\ e \notin Range(arg)
          /\ arg' = Append(arg, e)
    /\ ret' = filterOf(arg')
    /\ UNCHANGED handlerVars

NextTree == AddEntry

SpecTree == InitTree /\ [][NextTree]_vars

\* the names of a path, split at "/"
RECURSIVE splitPath(_)
splitPath(p) ==
    IF includes(p, "/")
    THEN LET i == CHOOSE j \in 1..Len(p) :
                     CharAt(p, j) = "/" /\ \A h \in 1..(j - 1) : CharAt(p, h) # "/"
         IN  <<SubSeq(p, 1, i - 1)>> \o splitPath(SubSeq(p, i + 1, Len(p)))
    ELSE <<p>>

\* the directories a path lies under
directoriesOf(p) == LET names == splitPath(p) IN {names[i] : i \in 1..(Len(names) - 1)}

\* C23: every path in filesLower is the lower-cased path of a blob of the tree,
\* lies under no skip directory, does not end in .md, .rst or .txt, is no
\* minified, bundled, .map or lock file and has an extension of the scan
\* allow-list; filesLower never has more than 200 entries.
C23_FilesLowerFiltered ==
    LET blobPaths == {toLowerCase(arg[i].path) :
                         i \in {j \in 1..Len(arg) : arg[j].type = "blob"}}
    IN  /\ Len(ret.filesLower) <= 200
        /\ \A k \in 1..Len(ret.filesLower) :
              LET p == ret.filesLower[k]
              IN  /\ p \in blobPaths
                  /\ directoriesOf(p) \cap Range(SKIP_DIRS) = {}
                  /\ ~\E x \in {".md", ".rst", ".txt", ".map"} : endsWith(p, x)
                  /\ ~\E x \in {".min.", ".bundle.", "package-lock", "yarn.lock", "pnpm-lock"} :
                        includes(p, x)
                  /\ getExt(p) \in SCAN_EXTS

\* a tree with more than 200 acceptable files next to entries rejected as a
\* tree entry, a document, a lock file and a file of a skip directory
C23_Witness ==
    /\ Len(ret.filesLower) = 200
    /\ Cardinality({i \in 1..Len(arg) : arg[i].type = "blob" /\ keepPath(arg[i].path)
                                           /\ getExt(arg[i].path) \in SCAN_EXTS}) = 201
    /\ \E i \in 1..Len(arg) : arg[i].type = "tree"
    /\ \E i \in 1..Len(arg) : endsWith(arg[i].path, ".txt")
    /\ \E i \in 1..Len(arg) : includes(arg[i].path, "yarn.lock")
    /\ \E i \in 1..Len(arg) : startsWith(arg[i].path, "out/")
    /\ ret.filesLower[200] = "src/index.ts"

\* the place of the blob b among the kept entries
placeOf(b) == CHOOSE i \in 1..Len(ret.blobs) : ret.blobs[i] = b

\* C24: at most 35 files are selected for fetch, each has a code extension and
\* is a kept entry; priority paths come ahead of the others, a non-priority
\* file is selected only if every priority code file of the kept entries is
\* selected, and files of equal priority keep their tree order (stated on
\* neighbours, which gives it for every pair).
C24_SelectionByPriority ==
    LET selected == ret.codeBlobs
        isCodeFile(b) ==
            getExt(b.path) \in {".js", ".jsx", ".ts", ".tsx", ".py", ".java", ".kt", ".yml",
                                ".yaml", ".html", ".css", ".scss", ".xml", ".gradle"}
        place == [i \in 1..Len(selected) |-> placeOf(selected[i])]
        ahead == [i \in 1..Len(selected) |-> isPriority(selected[i])]
    IN  /\ Len(selected) <= 35
        /\ \A i \in 1..Len(selected) :
              /\ isCodeFile(selected[i])
              /\ selected[i] \in Range(ret.blobs)
        /\ \A i \in 1..(Len(selected) - 1) :
              /\ ahead[i + 1] => ahead[i]
              /\ (ahead[i] <=> ahead[i + 1]) => place[i] < place[i + 1]
        /\ (\E i \in 1..Len(selected) : ~ahead[i]) =>
              \A b \in Range(ret.blobs) :
                 (isCodeFile(b) /\ isPriority(b)) => b \in Range(selected)

\* more code files are kept than are fetched: a priority file listed last in
\* the tree is selected first and pushes out the last of the others, which
\* keep their tree order
C24_Witness ==
    /\ Len(ret.codeBlobs) = 35
    /\ Cardinality({i \in 1..Len(ret.blobs) : getExt(ret.blobs[i].path) \in codeExts}) = 36
    /\ ret.codeBlobs[1].path = "src/Index.TS"
    /\ placeOf(ret.codeBlobs[1]) = 200
    /\ \A i \in 2..35 : ~isPriority(ret.codeBlobs[i]) /\ placeOf(ret.codeBlobs[i]) = 163 + i

(***************************************************************************)
(* The blob fetches of one repository: lines 987-1003                      *)
(***************************************************************************)
\* thirteen code files, the priority file listed last; one blob cannot be
\* fetched, one is empty, one is longer than MAX_BLOB_CHARS; no tree on the
\* default branch
RepoMany ==
    LET files == generated(MAX_PARALLEL_BLOBS + 2, MAX_PARALLEL_BLOBS + 2)
        place(sha) == CHOOSE n \in 1..Len(files) : files[n].sha = sha
    IN  [name |-> "many", fork |-> FALSE, default_branch |-> "trunk",
         languages |-> Languages([l \in {"TypeScript"} |-> 700]),
         pkg |-> Fail,
         reqTxt |-> Fail,
         trees |-> [ref \in {"master"} |-> Append(files, Entry("src/server.ts", "blob", "x1"))],
         blobs |-> [sha \in ({files[n].sha : n \in 1..Len(files)} \ {"g003"}) \cup {"x1"} |->
                      IF sha = "x1"
                      THEN Blob(Text(30000, {"Express"}, {"Express"}, {"Express"}, {}))
                      ELSE IF sha = "g005" THEN Blob(EmptyText)
                      ELSE Blob(Text(100 + place(sha), {"TypeScript"}, {}, {"TypeScript"}, {}))]]

\* the handler scanning the one repository
InitBatch ==
    /\ req = [githubUsername |-> "octocat", resumeText |-> ScenarioText, selectedSkills |-> <<>>]
    /\ world = Listing(<<RepoMany>>)
    /\ pc = "start"
    /\ claimedSkills = <<>>
    /\ repos = <<>>
    /\ langResults = <<>>
    /\ task = <<>>
    /\ finished = <<>>
    /\ repoFacts = <<>>
    /\ response = NoResponse
    /\ calls = NoCalls
    /\ rateLimit = NoRateLimit
    /\ reposRes = NoListing
    /\ arg = <<>>
    /\ ret = <<>>

SpecBatch == InitBatch /\ [][Next]_vars

\* the fetches of repos[i] that have settled: the batches before the current
\* one, and the settled ones of the current batch
settledFetches(i) ==
    IF task[i].pc = "blobs"
    THEN task[i].i + Cardinality({k \in 1..Len(task[i].batch) : isSettled(task[i].batch[k])})
    ELSE IF task[i].pc = "done" THEN Len(task[i].codeBlobs) ELSE 0

\* the fetches of repos[i] that have been issued, each call counted as often as issued
RECURSIVE issuedFetches(_, _)
issuedFetches(i, cs) ==
    IF cs = {} THEN 0
    ELSE LET c == CHOOSE x \in cs : TRUE IN calls[c] + issuedFetches(i, cs \ {c})

inFlight(i) == issuedFetches(i, blobFetches(i)) - settledFetches(i)

\* the samples of the selected files, fetched one after the other in selection order
samplesInOrder(r, codeBlobs) ==
    LET kept(k) == fetchBlobText(getBlob(r, codeBlobs[k].sha)).len > 0
        RECURSIVE upTo(_)
        upTo(k) ==
            IF k = 0 THEN <<>>
            ELSE IF kept(k)
                 THEN Append(upTo(k - 1),
                             truncate(fetchBlobText(getBlob(r, codeBlobs[k].sha))))
                 ELSE upTo(k - 1)
    IN  upTo(Len(codeBlobs))

\* never more than 10 fetches in flight; the files fetched so far are the first
\* ones of the selection, each fetched once; the samples kept so far are those
\* of the settled batches in selection order
BatchesBounded ==
    pc \in {"scan", "done"} =>
        \A i \in 1..Len(task) :
            task[i].pc \in {"blobs", "done"} =>
                LET t == task[i]
                    started == Cardinality(blobFetches(i))
                    joined == IF t.pc = "done" THEN Len(t.codeBlobs) ELSE t.i
                IN  /\ inFlight(i) >= 0 /\ inFlight(i) <= 10
                    /\ started <= Len(t.codeBlobs)
                    /\ blobFetches(i) =
                          {Call("git.getBlob", repos[i].name, t.codeBlobs[k].sha) :
                              k \in 1..started}
                    /\ \A c \in blobFetches(i) : calls[c] = 1
                    /\ t.pc = "done" => started = Len(t.codeBlobs)
                    /\ (IF t.pc = "done" THEN t.facts.codeSamples ELSE t.codeSamples)
                          = samplesInOrder(answers(i), SubSeq(t.codeBlobs, 1, joined))

\* a step that issues blob fetches is taken with no fetch in flight and issues
\* at most 10
BatchesInTurn ==
    \A i \in 1..Len(task) :
        blobFetches(i)' # blobFetches(i) =>
            /\ inFlight(i) = 0
            /\ Cardinality(blobFetches(i)' \ blobFetches(i)) <= 10

\* C25: within one repository scan there are never more than 10 blob fetches in
\* flight: the selected files are fetched in consecutive batches of at most
\* 10, a batch is started only after every fetch of the batch before has
\* completed or failed, each selected blob is fetched exactly once, and the
\* retained samples appear in selection order whatever the order in which
\* the fetches of a batch complete.
C25_BoundedBatches == []BatchesBounded /\ [][BatchesInTurn]_vars

\* the second batch is in flight and its last fetch has completed before its
\* first; the first batch, with a failed and an empty fetch, left eight samples
C25_Witness ==
    /\ pc = "scan"
    /\ task[1].pc = "blobs"
    /\ task[1].i = 10
    /\ Len(task[1].codeBlobs) = 13
    /\ ~isSettled(task[1].batch[1]) /\ isSettled(task[1].batch[3])
    /\ inFlight(1) = 2
    /\ Len(task[1].codeSamples) = 8
    /\ task[1].codeSamples[1].len = MAX_BLOB_CHARS

(***************************************************************************)
(* The counts of the evidence-signal loop                                  *)
(***************************************************************************)
\* reposWithProof, reposWithAdvanced and totalCodeFilesForSkill after the loop
\* over the first k scanned repositories
countsAfter(skill, k) ==
    signalLoop(skill, RULES(skill), [h \in 1..k |-> arg.scanned[h].facts], 1, Counts(0, 0, 0))

\* C26: on the evidence-signal path each repository adds at most 1 to
\* reposWithProof whatever the number of signal kinds that hit, so after the
\* loop reposWithProof <= min(3, number of repositories); a repository is
\* counted as advanced only if it signals, so reposWithAdvanced <= reposWithProof.
C26_CountsBounded ==
    \A i \in 1..Len(arg.claimed) :
        onEvidencePath(arg.claimed[i]) =>
            LET skill == arg.claimed[i]
                total == countsAfter(skill, Len(arg.scanned))
            IN  /\ total.n <= Min(3, Len(arg.scanned))
                /\ total.a <= total.n
                /\ \A k \in 1..Len(arg.scanned) :
                      LET grown == countsAfter(skill, k).n - countsAfter(skill, k - 1).n
                      IN  /\ grown \in {0, 1}
                          /\ grown = 1 => signalsFor(skill, arg.scanned[k].facts)
                          /\ countsAfter(skill, k).a - countsAfter(skill, k - 1).a <= grown

\* four repositories signal for a claimed skill, one of them with two kinds of
\* signal and an advanced pattern: three are counted, one as advanced
C26_Witness ==
    /\ Len(arg.scanned) = 4
    /\ \E i \in 1..Len(arg.claimed) :
          LET skill == arg.claimed[i]
          IN  /\ onEvidencePath(skill)
              /\ \A k \in 1..4 : signalsFor(skill, arg.scanned[k].facts)
              /\ \E k \in 1..3 : repoSignal(skill, RULES(skill), arg.scanned[k].facts) >= 2
              /\ countsAfter(skill, 4).n = 3
              /\ countsAfter(skill, 4).a = 1

(***************************************************************************)
(* Language scoring                                                        *)
(***************************************************************************)
\* the language bytes reported for the scanned repositories
scannedLanguages == [k \in 1..Len(arg.scanned) |-> arg.scanned[k].languages]

\* s is the share of the language in the scanned bytes as a whole percentage:
\* between 0 and 100 and no further than one half from 100 * bytes / total
isShareOf(s, lang) ==
    LET bytes == langTotal(scannedLanguages, lang)
        total == totalBytes(scannedLanguages)
        off == s * total - 100 * bytes
    IN  /\ s \in 0..100
        /\ 2 * (IF off < 0 THEN -off ELSE off) <= total

\* the proficiency calculateProficiency answers for the counts of the hybrid loop
hybridProficiency(skill) ==
    LET c == hybridLoop(skill, RULES(skill), [k \in 1..Len(arg.scanned) |-> arg.scanned[k].facts],
                        1, Counts(0, 0, 0))
    IN  calculateProficiency(c.n, c.a, c.t)

\* C27: the score of C++ is the share of its bytes in the scanned bytes of all
\* repositories, rounded and within 0..100, and the entry has no proficiency;
\* the score of Java, Python, JavaScript, TypeScript, HTML and CSS is
\* round(0.5 * share + 0.5 * proficiency score), halves upwards, and the
\* entry's proficiency is the tier calculateProficiency answers.
C27_LanguageScores ==
    \A i \in 1..Len(arg.claimed) :
        LET skill == arg.claimed[i]
            entry == ret.breakdown[i]
        IN  /\ skill = "C++" =>
                  /\ isShareOf(entry.score, "C++")
                  /\ "proficiency" \notin DOMAIN entry
            /\ skill \in {"Java", "Python", "JavaScript", "TypeScript", "HTML", "CSS"} =>
                  /\ \E s \in 0..100 :
                        /\ isShareOf(s, skill)
                        /\ 2 * entry.score - (s + hybridProficiency(skill).score) \in {0, 1}
                  /\ "proficiency" \in DOMAIN entry
                  /\ entry.proficiency = hybridProficiency(skill).level

\* C++ has a positive share that is no whole percentage; HTML has a share and
\* a proficiency score whose sum is odd, so the blend is rounded upwards
C27_Witness ==
    \E i, j \in 1..Len(arg.claimed) :
        /\ arg.claimed[i] = "C++"
        /\ ret.breakdown[i].score > 0
        /\ (100 * langTotal(scannedLanguages, "C++")) % totalBytes(scannedLanguages) # 0
        /\ arg.claimed[j] = "HTML"
        /\ hybridProficiency("HTML").score > 0
        /\ isShareOf(2 * ret.breakdown[j].score - 1 - hybridProficiency("HTML").score, "HTML")
        /\ ret.breakdown[j].proficiency # "None"

(***************************************************************************)
(* The tier None and the score 0                                           *)
(***************************************************************************)
\* the entries of the breakdown that carry a proficiency
tiered == {i \in 1..Len(ret.breakdown) : "proficiency" \in DOMAIN ret.breakdown[i]}

\* C28 as stated: in every breakdown entry that carries a proficiency, the
\* proficiency is "None" exactly when the score is 0.
C28_NoneIffZero ==
    \A i \in tiered : ret.breakdown[i].proficiency = "None" <=> ret.breakdown[i].score = 0

\* C28, amended: an entry with score 0 has the proficiency "None", and on the
\* evidence-signal path the proficiency is "None" exactly when the score is
\* 0; on the hybrid path an entry with proficiency "None" has half the
\* language's byte share as its score, rounded upwards.
C28_NoneIffZeroOnEvidence ==
    \A i \in tiered :
        LET entry == ret.breakdown[i]
        IN  /\ entry.score = 0 => entry.proficiency = "None"
            /\ onEvidencePath(entry.skill) => (entry.proficiency = "None" <=> entry.score = 0)
            /\ (onHybridPath(entry.skill) /\ entry.proficiency = "None") =>
                  \E s \in 0..100 : isShareOf(s, entry.skill) /\ 2 * entry.score - s \in {0, 1}

\* a hybrid language with bytes but no matching file or sample is listed with
\* the tier None and a positive score, next to an evidence skill without
\* signal (None, 0) and one with a signal
C28_Witness ==
    \E i, j, k \in tiered :
        /\ onHybridPath(ret.breakdown[i].skill)
        /\ ret.breakdown[i].proficiency = "None" /\ ret.breakdown[i].score > 0
        /\ onEvidencePath(ret.breakdown[j].skill)
        /\ ret.breakdown[j].proficiency = "None" /\ ret.breakdown[j].score = 0
        /\ onEvidencePath(ret.breakdown[k].skill)
        /\ ret.breakdown[k].proficiency # "None" /\ ret.breakdown[k].score > 0

(***************************************************************************)
(* The pre-flight check                                                    *)
(***************************************************************************)
\* the rate-limit query has failed: checkRateLimit answers remaining -1
queryFailed == rateLimit.remaining = -1

\* C29: the scan is refused by the pre-flight check if and only if the
\* rate-limit query succeeded and reported 0 <= remaining < 50; when the query
\* fails, or remaining >= 50 (50 included), the listing is requested.
C29_RefusedIffLowQuota ==
    rateLimit # NoRateLimit =>
        LET refused == pc = "done" /\ response = RateLimitError(rateLimit)
            listing == issued(Call("repos.listForUser", "", req.githubUsername))
        IN  /\ refused <=> (~queryFailed /\ rateLimit.remaining >= 0 /\ rateLimit.remaining < 50)
            /\ refused => listing = 0
            /\ (queryFailed \/ rateLimit.remaining >= 50) => listing = 1

\* the rate-limit query failed and the listing has been requested
C29_Witness ==
    /\ rateLimit # NoRateLimit
    /\ queryFailed
    /\ pc = "list"
    /\ response = NoResponse
    /\ issued(Call("repos.listForUser", "", req.githubUsername)) = 1

(***************************************************************************)
(* The candidate repository of a plan                                      *)
(***************************************************************************)
\* the repository shows a match related to the skill: a source-file extension,
\* a dependency or a conventional indicator of the skill
matchesSkill(skill, r) ==
    LET low == r.filesLower
        someEndsWith(exts) == \E i \in 1..Len(low) : \E e \in exts : endsWith(low[i], e)
        someIncludes(part) == \E i \in 1..Len(low) : includes(low[i], part)
        lowerDeps == {toLowerCase(d) : d \in r.deps}
    IN  \/ skill \in {"React", "Next.js", "Node.js"} /\ someEndsWith({".js", ".jsx", ".ts", ".tsx"})
        \/ skill \in {"FastAPI", "Python"} /\ someEndsWith({".py"})
        \/ skill = "React" /\ lowerDeps \cap {"react", "react-dom"} # {}
        \/ skill = "Next.js" /\ "next" \in lowerDeps
        \/ skill = "Node.js" /\ "express" \in lowerDeps
        \/ skill = "Docker" /\ someIncludes("dockerfile")
        \/ skill \in {"GitHub Actions", "CI/CD"} /\ someIncludes(".github/workflows")

\* C30: the planner reports candidateExists = true only when some repository
\* shows a match related to the skill, and the repository it proposes is one
\* with such a match, whatever the number of its scanned files.
C30_CandidateOnlyOnMatch ==
    ret.candidateExists =>
        \E i \in 1..Len(arg.facts) :
            /\ arg.facts[i].repo = ret.repoName
            /\ matchesSkill(arg.skill, arg.facts[i])

\* a skill the planner has no indicator for, and one repository of fifty
\* data files: the repository is proposed
C30_Witness ==
    /\ arg.skill = "Rust"
    /\ Len(arg.facts) = 1
    /\ Len(arg.facts[1].filesLower) = 50
    /\ ~matchesSkill(arg.skill, arg.facts[1])
    /\ ret.candidateExists
    /\ ret.repoName = arg.facts[1].repo

================================================================================
